---- MODULE Spec2Model ----
(***************************************************************************)
(* Model of the repository ingestion pipeline of CodebaseChronicle:        *)
(*   - the analyze trigger and the background ingestion run, in the        *)
(*     variants the repository ships: the Express server over MemStorage   *)
(*     ("express"), the serverless analyze handler over module-level maps  *)
(*     ("vercel"), and the commit-listing handler that clones and returns  *)
(*     the commits without a store ("direct"),                             *)
(*   - the commit-list poller of the timeline components,                  *)
(*   - the commit classifiers (local path, client library, remote path),   *)
(*   - the commit-page handler of the remote path: upstream requests, the  *)
(*     concurrent detail requests, the transform and the response,         *)
(*   - the insight aggregator of the page handler,                         *)
(*   - the paged query of the vertical timeline and its scroll observer,   *)
(*   - the parser of the git log output of an ingestion run,               *)
(*   - the validation of the url of an analyze request,                    *)
(*   - the selected commit of the dashboard under clicks and effects.      *)
(* Strings are sequences of one-character strings, so that includes() and  *)
(* toLowerCase() are computed, not assumed.  Every `await` of the source   *)
(* is a point where another handler or run may be scheduled; the code      *)
(* between two awaits is one atomic step.                                  *)
(***************************************************************************)
EXTENDS Integers, Sequences, FiniteSets, TLC

\* ------------------------------------------------------------------ bounds
MaxRequests == 2
NumUrls == 1
MaxHash == 2
MaxWords == 2
MaxFiles == 2

\* ----------------------------------------------------------------- strings
Upper == <<"A","B","C","D","E","F","G","H","I","J","K","L","M","N","O","P","Q","R","S","T","U","V","W","X","Y","Z">>
LowerCase == <<"a","b","c","d","e","f","g","h","i","j","k","l","m","n","o","p","q","r","s","t","u","v","w","x","y","z">>

toLowerCaseChar(c) ==
  IF \E i \in 1..Len(Upper) : Upper[i] = c
  THEN LowerCase[CHOOSE i \in 1..Len(Upper) : Upper[i] = c]
  ELSE c

toLowerCase(s) == [i \in 1..Len(s) |-> toLowerCaseChar(s[i])]

includes(s, k) ==
  \E i \in 1..(Len(s) - Len(k) + 1) : SubSeq(s, i, i + Len(k) - 1) = k

RECURSIVE join(_, _)
join(parts, sep) ==
  IF Len(parts) = 0 THEN <<>>
  ELSE IF Len(parts) = 1 THEN parts[1]
  ELSE parts[1] \o sep \o join(Tail(parts), sep)

\* ------------------------------------------------------------- classifiers
\* local path: files is a sequence of file names
hasArchFiles(files) ==
  \E i \in 1..Len(files) :
    \/ includes(files[i], <<"d","o","c","k","e","r">>)
    \/ includes(files[i], <<"c","o","n","f","i","g">>)
    \/ includes(files[i], <<"m","i","g","r","a","t","i","o","n">>)
    \/ includes(files[i], <<"s","e","t","u","p">>)
    \/ includes(files[i], <<"i","n","f","r","a">>)

\* mutant: the refactor rule is tested before the bug-fix rule
categorizeCommit_refactorFirst(message, files) ==
  LET msg == toLowerCase(message)
      fileCount == Len(files)
  IN  IF \/ hasArchFiles(files)
         \/ includes(msg, <<"m","i","g","r","a","t","e">>) \/ includes(msg, <<"a","r","c","h","i","t","e","c","t","u","r","e">>)
         \/ includes(msg, <<"i","n","f","r","a","s","t","r","u","c","t","u","r","e">>) \/ includes(msg, <<"d","o","c","k","e","r">>)
         \/ includes(msg, <<"d","e","p","l","o","y">>)
         \/ fileCount > 15
      THEN "architecture"
      ELSE IF \/ includes(msg, <<"f","e","a","t">>) \/ includes(msg, <<"f","e","a","t","u","r","e">>)
              \/ includes(msg, <<"a","d","d">>) \/ includes(msg, <<"i","m","p","l","e","m","e","n","t">>)
              \/ includes(msg, <<"l","a","u","n","c","h">>) \/ includes(msg, <<"r","e","l","e","a","s","e">>)
              \/ includes(msg, <<"n","e","w">>)
              \/ fileCount > 8
      THEN "major-feature"
      ELSE IF \/ includes(msg, <<"r","e","f","a","c","t","o","r">>) \/ includes(msg, <<"o","p","t","i","m","i","z","e">>)
              \/ includes(msg, <<"i","m","p","r","o","v","e">>) \/ includes(msg, <<"c","l","e","a","n">>)
              \/ includes(msg, <<"r","e","s","t","r","u","c","t","u","r","e">>) \/ includes(msg, <<"u","p","d","a","t","e">>)
      THEN "refactor"
      ELSE IF \/ includes(msg, <<"f","i","x">>) \/ includes(msg, <<"b","u","g">>)
              \/ includes(msg, <<"e","r","r","o","r">>) \/ includes(msg, <<"i","s","s","u","e">>)
              \/ includes(msg, <<"p","a","t","c","h">>)
      THEN "bug-fix"
      ELSE "minor-feature"

categorizeCommit(message, files) ==
  LET msg == toLowerCase(message)
      fileCount == Len(files)
  IN  IF \/ hasArchFiles(files)
         \/ includes(msg, <<"m","i","g","r","a","t","e">>) \/ includes(msg, <<"a","r","c","h","i","t","e","c","t","u","r","e">>)
         \/ includes(msg, <<"i","n","f","r","a","s","t","r","u","c","t","u","r","e">>) \/ includes(msg, <<"d","o","c","k","e","r">>)
         \/ includes(msg, <<"d","e","p","l","o","y">>)
         \/ fileCount > 15
      THEN "architecture"
      ELSE IF \/ includes(msg, <<"f","e","a","t">>) \/ includes(msg, <<"f","e","a","t","u","r","e">>)
              \/ includes(msg, <<"a","d","d">>) \/ includes(msg, <<"i","m","p","l","e","m","e","n","t">>)
              \/ includes(msg, <<"l","a","u","n","c","h">>) \/ includes(msg, <<"r","e","l","e","a","s","e">>)
              \/ includes(msg, <<"n","e","w">>)
              \/ fileCount > 8
      THEN "major-feature"
      ELSE IF \/ includes(msg, <<"f","i","x">>) \/ includes(msg, <<"b","u","g">>)
              \/ includes(msg, <<"e","r","r","o","r">>) \/ includes(msg, <<"i","s","s","u","e">>)
              \/ includes(msg, <<"p","a","t","c","h">>)
      THEN "bug-fix"
      ELSE IF \/ includes(msg, <<"r","e","f","a","c","t","o","r">>) \/ includes(msg, <<"o","p","t","i","m","i","z","e">>)
              \/ includes(msg, <<"i","m","p","r","o","v","e">>) \/ includes(msg, <<"c","l","e","a","n">>)
              \/ includes(msg, <<"r","e","s","t","r","u","c","t","u","r","e">>) \/ includes(msg, <<"u","p","d","a","t","e">>)
      THEN "refactor"
      ELSE "minor-feature"

\* mutant: the api tag is pushed once per matching pattern
categorizeCommitRemote_tagPerMatch(message, files) ==
  LET lowerMessage == toLowerCase(message)
      fileNames == join([i \in 1..Len(files) |-> toLowerCase(files[i])], <<" ">>)
      featureTags ==
        <<"feature">>
        \o (IF includes(fileNames, <<"a","p","i">>) THEN <<"api">> ELSE <<>>)
        \o (IF includes(fileNames, <<"e","n","d","p","o","i","n","t">>) THEN <<"api">> ELSE <<>>)
        \o (IF includes(fileNames, <<"u","i">>) \/ includes(fileNames, <<"c","o","m","p","o","n","e","n","t">>)
            THEN <<"ui">> ELSE <<>>)
  IN  IF includes(lowerMessage, <<"i","n","i","t","i","a","l"," ","c","o","m","m","i","t">>) \/ includes(lowerMessage, <<"f","i","r","s","t"," ","c","o","m","m","i","t">>)
      THEN [type |-> "initial", category |-> "Project Setup", importance |-> "high",
            tags |-> <<"setup">>]
      ELSE IF \/ includes(lowerMessage, <<"f","e","a","t">>) \/ includes(lowerMessage, <<"f","e","a","t","u","r","e">>)
              \/ includes(lowerMessage, <<"a","d","d">>)
      THEN [type |-> "feature", category |-> "New Feature", importance |-> "high",
            tags |-> featureTags]
      ELSE IF \/ includes(lowerMessage, <<"f","i","x">>) \/ includes(lowerMessage, <<"b","u","g">>)
              \/ includes(lowerMessage, <<"p","a","t","c","h">>)
      THEN [type |-> "bugfix", category |-> "Bug Fix", importance |-> "medium",
            tags |-> <<"bugfix">>]
      ELSE IF \/ includes(lowerMessage, <<"d","o","c">>) \/ includes(lowerMessage, <<"r","e","a","d","m","e">>)
              \/ includes(fileNames, <<"r","e","a","d","m","e">>) \/ includes(fileNames, <<".","m","d">>)
      THEN [type |-> "docs", category |-> "Documentation", importance |-> "low",
            tags |-> <<"documentation">>]
      ELSE IF \/ includes(lowerMessage, <<"c","o","n","f","i","g">>)
              \/ includes(fileNames, <<"p","a","c","k","a","g","e",".","j","s","o","n">>) \/ includes(fileNames, <<"c","o","n","f","i","g">>)
      THEN [type |-> "config", category |-> "Configuration", importance |-> "medium",
            tags |-> <<"configuration">>]
      ELSE IF \/ includes(lowerMessage, <<"t","e","s","t">>)
              \/ includes(fileNames, <<"t","e","s","t">>) \/ includes(fileNames, <<"s","p","e","c">>)
      THEN [type |-> "test", category |-> "Testing", importance |-> "medium",
            tags |-> <<"testing">>]
      ELSE IF \/ includes(lowerMessage, <<"r","e","f","a","c","t","o","r">>) \/ includes(lowerMessage, <<"c","l","e","a","n","u","p">>)
              \/ includes(lowerMessage, <<"i","m","p","r","o","v","e">>)
      THEN [type |-> "refactor", category |-> "Code Improvement", importance |-> "medium",
            tags |-> <<"refactoring">>]
      ELSE [type |-> "feature", category |-> "Code Change", importance |-> "low",
            tags |-> <<"general">>]

\* remote path: returns type, category, importance and tags
categorizeCommitRemote(message, files) ==
  LET lowerMessage == toLowerCase(message)
      fileNames == join([i \in 1..Len(files) |-> toLowerCase(files[i])], <<" ">>)
      featureTags ==
        <<"feature">>
        \o (IF includes(fileNames, <<"a","p","i">>) \/ includes(fileNames, <<"e","n","d","p","o","i","n","t">>)
            THEN <<"api">> ELSE <<>>)
        \o (IF includes(fileNames, <<"u","i">>) \/ includes(fileNames, <<"c","o","m","p","o","n","e","n","t">>)
            THEN <<"ui">> ELSE <<>>)
  IN  IF includes(lowerMessage, <<"i","n","i","t","i","a","l"," ","c","o","m","m","i","t">>) \/ includes(lowerMessage, <<"f","i","r","s","t"," ","c","o","m","m","i","t">>)
      THEN [type |-> "initial", category |-> "Project Setup", importance |-> "high",
            tags |-> <<"setup">>]
      ELSE IF \/ includes(lowerMessage, <<"f","e","a","t">>) \/ includes(lowerMessage, <<"f","e","a","t","u","r","e">>)
              \/ includes(lowerMessage, <<"a","d","d">>)
      THEN [type |-> "feature", category |-> "New Feature", importance |-> "high",
            tags |-> featureTags]
      ELSE IF \/ includes(lowerMessage, <<"f","i","x">>) \/ includes(lowerMessage, <<"b","u","g">>)
              \/ includes(lowerMessage, <<"p","a","t","c","h">>)
      THEN [type |-> "bugfix", category |-> "Bug Fix", importance |-> "medium",
            tags |-> <<"bugfix">>]
      ELSE IF \/ includes(lowerMessage, <<"d","o","c">>) \/ includes(lowerMessage, <<"r","e","a","d","m","e">>)
              \/ includes(fileNames, <<"r","e","a","d","m","e">>) \/ includes(fileNames, <<".","m","d">>)
      THEN [type |-> "docs", category |-> "Documentation", importance |-> "low",
            tags |-> <<"documentation">>]
      ELSE IF \/ includes(lowerMessage, <<"c","o","n","f","i","g">>)
              \/ includes(fileNames, <<"p","a","c","k","a","g","e",".","j","s","o","n">>) \/ includes(fileNames, <<"c","o","n","f","i","g">>)
      THEN [type |-> "config", category |-> "Configuration", importance |-> "medium",
            tags |-> <<"configuration">>]
      ELSE IF \/ includes(lowerMessage, <<"t","e","s","t">>)
              \/ includes(fileNames, <<"t","e","s","t">>) \/ includes(fileNames, <<"s","p","e","c">>)
      THEN [type |-> "test", category |-> "Testing", importance |-> "medium",
            tags |-> <<"testing">>]
      ELSE IF \/ includes(lowerMessage, <<"r","e","f","a","c","t","o","r">>) \/ includes(lowerMessage, <<"c","l","e","a","n","u","p">>)
              \/ includes(lowerMessage, <<"i","m","p","r","o","v","e">>)
      THEN [type |-> "refactor", category |-> "Code Improvement", importance |-> "medium",
            tags |-> <<"refactoring">>]
      ELSE [type |-> "feature", category |-> "Code Change", importance |-> "low",
            tags |-> <<"general">>]

\* ------------------------------------------------------- ingestion: state
VARIABLES
  impl,          \* which variant runs: "express", "vercel" or "direct"
  repositories,  \* the repository map, in insertion order
  commits,       \* the commit store, in insertion order
  handlers,      \* per analyze request: position and locals of the handler
  runs,          \* per analyze request: the ingestion run it started
  disk,          \* runs whose temporary clone directory exists
  poller,        \* the commit-list query of the timeline component
  cls,           \* classifier inputs and outputs (classifier specifications)
  page,          \* the commit-page request of the remote-API handler
  agg,           \* aggregator inputs and outputs (aggregator specification)
  ui,            \* the timeline component: its page query and the selection
  gitlog         \* log-parser inputs and outputs (parser specification)

vars == <<impl, repositories, commits, handlers, runs, disk, poller, cls, page, agg, ui, gitlog>>
ingestVars == <<impl, repositories, commits, handlers, runs, disk, poller>>
remoteVars == <<page, agg>>

Requests == 1..MaxRequests
Urls == 1..NumUrls
Hashes == 1..MaxHash

\* the history behind a hash never changes: message, files and date per hash
CommitInfo(h) ==
  CASE h = 1 -> [message |-> <<"I","n","i","t","i","a","l"," ","c","o","m","m","i","t">>, files |-> <<<<"R","E","A","D","M","E",".","m","d">>>>, date |-> 1]
    [] h = 2 -> [message |-> <<"F","i","x"," ","l","o","g","i","n"," ","b","u","g">>, files |-> <<<<"s","r","c","/","l","o","g","i","n",".","t","s">>>>, date |-> 2]
    [] h = 3 -> [message |-> <<"a","d","d"," ","d","o","c","k","e","r"," ","s","e","t","u","p">>, files |-> <<<<"d","o","c","k","e","r","-","c","o","m","p","o","s","e",".","y","m","l">>>>, date |-> 3]
    [] OTHER -> [message |-> <<"u","p","d","a","t","e"," ","d","e","p","s">>, files |-> <<<<"p","a","c","k","a","g","e",".","j","s","o","n">>>>, date |-> h]

\* parsed output of `git log`: the n most recent commits, most recent first
GitLog(n) == [i \in 1..n |-> n + 1 - i]

\* ------------------------------------------------------------ the storage
getRepositoryByUrl(url) ==
  LET hits == SelectSeq(repositories, LAMBDA repo : repo.url = url)
  IN  IF Len(hits) = 0 THEN <<>> ELSE <<hits[1]>>

getRepository(id) ==
  LET hits == SelectSeq(repositories, LAMBDA repo : repo.id = id)
  IN  IF Len(hits) = 0 THEN <<>> ELSE <<hits[1]>>

createRepository(id, url) == [id |-> id, url |-> url, status |-> "pending"]

\* mutant: the write of 'processing' is lost
updateRepositoryStatus_dropsProcessing(id, status) ==
  [i \in 1..Len(repositories) |->
     IF repositories[i].id = id /\ status # "processing"
     THEN [repositories[i] EXCEPT !.status = status]
     ELSE repositories[i]]

updateRepositoryStatus(id, status) ==
  [i \in 1..Len(repositories) |->
     IF repositories[i].id = id
     THEN [repositories[i] EXCEPT !.status = status]
     ELSE repositories[i]]

\* The commit map is keyed by a fresh uuid per record, so it is a multiset of
\* commit records; two records of one repository with the same date carry the
\* same hash and differ in nothing but the uuid, so the insertion order of
\* the map cannot be observed through getRepositoryCommits.
commitsOf(repositoryId) == {commit \in DOMAIN commits : commit.repositoryId = repositoryId}

RECURSIVE sortByDate(_, _)
sortByDate(bag, todo) ==
  IF todo = {} THEN <<>>
  ELSE LET first == CHOOSE c \in todo : \A d \in todo : c.date <= d.date
       IN  [i \in 1..bag[first] |-> first] \o sortByDate(bag, todo \ {first})

getRepositoryCommits(repositoryId) == sortByDate(commits, commitsOf(repositoryId))

\* the classification of each commit of the history (a pure function of it)
commitType == [h \in Hashes |-> categorizeCommit(CommitInfo(h).message, CommitInfo(h).files)]

newCommit(repoId, h) ==
  [repositoryId |-> repoId, hash |-> h, type |-> commitType[h], date |-> CommitInfo(h).date]

createCommit(store, commit) ==
  [c \in DOMAIN store \cup {commit} |->
     (IF c \in DOMAIN store THEN store[c] ELSE 0) + (IF c = commit THEN 1 ELSE 0)]

deleteRepositoryCommits(repositoryId) ==
  [c \in DOMAIN commits \ commitsOf(repositoryId) |-> commits[c]]

\* serverless variant: commits.set(repoId, repoCommits) replaces the list
RECURSIVE pushAll(_, _, _)
pushAll(store, repoId, parsed) ==
  IF parsed = <<>> THEN store
  ELSE pushAll(createCommit(store, newCommit(repoId, Head(parsed))), repoId, Tail(parsed))

setRepositoryCommits(repoId, parsed) ==
  pushAll(deleteRepositoryCommits(repoId), repoId, parsed)

\* ------------------------------------------------------------------- Init
NoCommits == [c \in {} |-> 0]
IdleHandler == [pc |-> "idle", url |-> 0, repository |-> <<>>, response |-> <<>>]
NoRun == [pc |-> "none", repoId |-> 0, tempDir |-> FALSE, parsed |-> <<>>, idx |-> 0,
          madeDir |-> FALSE, deleted |-> FALSE, created |-> 0,
          failure |-> "none", wrote |-> "none"]
PollerOff == [pc |-> "off", repositoryId |-> 0, data |-> <<>>, seenStatus |-> "none"]
NoCls == [phase |-> "off", message |-> <<>>, files |-> <<>>, local |-> "", remote |-> <<>>,
          client |-> ""]
NoPage == [pc |-> "off", pageNumber |-> 0, upstream |-> <<>>, details |-> <<>>,
           issued |-> {}, failedDetails |-> {}, failed |-> <<>>, response |-> <<>>]
NoAgg == [phase |-> "off", commits |-> <<>>, result |-> <<>>]
NoUi == [view |-> "off"]
NoGitLog == [phase |-> "off"]

Init ==
  /\ impl \in {"express", "vercel", "direct"}
  /\ repositories = <<>>
  /\ commits = NoCommits
  /\ handlers = [q \in Requests |-> IdleHandler]
  /\ runs = [q \in Requests |-> NoRun]
  /\ disk = {}
  /\ poller = PollerOff
  /\ ui = NoUi
  /\ gitlog = NoGitLog
  /\ cls = NoCls
  /\ page = NoPage
  /\ agg = NoAgg

\* ------------------------------------------------- the analyze trigger
\* Express handler up to `await storage.getRepositoryByUrl(url)`
AnalyzeRequest(q, url) ==
  /\ impl = "express"
  /\ handlers[q].pc = "idle"
  /\ \A p \in 1..(q - 1) : handlers[p].pc # "idle"
  /\ handlers' = [handlers EXCEPT ![q] =
                    [@ EXCEPT !.pc = "awaitLookup", !.url = url,
                              !.repository = getRepositoryByUrl(url)]]
  /\ UNCHANGED <<impl, repositories, commits, runs, disk, poller, cls, page, agg, ui, gitlog>>

\* no record found: createRepository, up to its await
AnalyzeCreate(q) ==
  /\ impl = "express"
  /\ handlers[q].pc = "awaitLookup"
  /\ handlers[q].repository = <<>>
  /\ LET repository == createRepository(q, handlers[q].url)
     IN  /\ repositories' = Append(repositories, repository)
         /\ handlers' = [handlers EXCEPT ![q] =
                           [@ EXCEPT !.pc = "awaitCreate", !.repository = <<repository>>]]
  /\ UNCHANGED <<impl, commits, runs, disk, poller, cls, page, agg, ui, gitlog>>

\* analyzeGitRepository(url, repository.id) is called and runs to its first
\* await (the status write), then the handler sends its local `repository`
AnalyzeStart(q) ==
  /\ impl = "express"
  /\ \/ handlers[q].pc = "awaitCreate"
     \/ handlers[q].pc = "awaitLookup" /\ handlers[q].repository # <<>>
  /\ LET repository == handlers[q].repository[1]
     IN  /\ repositories' = updateRepositoryStatus(repository.id, "processing")
         /\ runs' = [runs EXCEPT ![q] =
                       [@ EXCEPT !.pc = "awaitProcessing", !.repoId = repository.id,
                                 !.wrote = "processing"]]
         /\ handlers' = [handlers EXCEPT ![q] =
                           [@ EXCEPT !.pc = "done", !.response = <<repository>>]]
  /\ UNCHANGED <<impl, commits, disk, poller, cls, page, agg, ui, gitlog>>

\* serverless handler: lookup, create, start of the run and response are
\* one synchronous block; the run stops at `await fs.mkdir`
VercelAnalyze(q, url) ==
  /\ impl = "vercel"
  /\ handlers[q].pc = "idle"
  /\ \A p \in 1..(q - 1) : handlers[p].pc # "idle"
  /\ LET found == getRepositoryByUrl(url)
         repository == IF found = <<>> THEN createRepository(q, url) ELSE found[1]
         stored == IF found = <<>> THEN Append(repositories, repository) ELSE repositories
         \* repo.status = 'processing' assigns to the object the map holds,
         \* which is the object the handler serialises afterwards
         started == [i \in 1..Len(stored) |->
                       IF stored[i].id = repository.id
                       THEN [stored[i] EXCEPT !.status = "processing"]
                       ELSE stored[i]]
         sent == SelectSeq(started, LAMBDA repo : repo.id = repository.id)[1]
     IN  /\ repositories' = started
         /\ runs' = [runs EXCEPT ![q] =
                       [@ EXCEPT !.pc = "awaitMkdir", !.repoId = repository.id,
                                 !.tempDir = TRUE, !.wrote = "processing"]]
         /\ handlers' = [handlers EXCEPT ![q] =
                           [@ EXCEPT !.pc = "done", !.url = url,
                                     !.repository = <<sent>>, !.response = <<sent>>]]
  /\ UNCHANGED <<impl, commits, disk, poller, cls, page, agg, ui, gitlog>>

\* ------------------------------------------------- the ingestion run
\* mutant: the catch block records the failure but never writes the status
Catch_keepsStatus(q, reason) ==
  /\ repositories' = repositories
  /\ runs' = [runs EXCEPT ![q] =
                [@ EXCEPT !.pc = IF impl = "express" THEN "awaitError" ELSE "awaitRm",
                          !.failure = reason,
                          !.wrote = IF impl = "direct" THEN "none" ELSE "error"]]

\* catch block: the status write of the failure path (Express: up to its
\* await; serverless: straight on to the finally block, up to the await of
\* fs.rm).  The commit-listing handler has no record: its catch rethrows.
Catch(q, reason) ==
  /\ repositories' = IF impl = "direct" THEN repositories
                     ELSE updateRepositoryStatus(runs[q].repoId, "error")
  /\ runs' = [runs EXCEPT ![q] =
                [@ EXCEPT !.pc = IF impl = "express" THEN "awaitError" ELSE "awaitRm",
                          !.failure = reason,
                          !.wrote = IF impl = "direct" THEN "none" ELSE "error"]]

\* Express run resumes after the processing write: tempDir is assigned and
\* fs.mkdir is called
Mkdir(q) ==
  /\ impl = "express"
  /\ runs[q].pc = "awaitProcessing"
  /\ runs' = [runs EXCEPT ![q] = [@ EXCEPT !.pc = "awaitMkdir", !.tempDir = TRUE]]
  /\ UNCHANGED <<impl, repositories, commits, handlers, disk, poller, cls, page, agg, ui, gitlog>>

\* fs.mkdir settles; on success `git clone` is started
Clone(q) ==
  /\ runs[q].pc = "awaitMkdir"
  /\ \/ /\ disk' = disk \cup {q}
        /\ runs' = [runs EXCEPT ![q] = [@ EXCEPT !.pc = "awaitClone", !.madeDir = TRUE]]
        /\ UNCHANGED repositories
     \/ /\ Catch(q, "mkdir")
        /\ UNCHANGED disk
  /\ UNCHANGED <<impl, commits, handlers, poller, cls, page, agg, ui, gitlog>>

\* the clone settles; on success `git log` is started.  A clone that fails
\* and a clone killed by its 30 s timeout both reject the awaited promise.
Log(q) ==
  /\ runs[q].pc = "awaitClone"
  /\ \/ /\ runs' = [runs EXCEPT ![q] = [@ EXCEPT !.pc = "awaitLog"]]
        /\ UNCHANGED repositories
     \/ Catch(q, "clone")
  /\ UNCHANGED <<impl, commits, handlers, disk, poller, cls, page, agg, ui, gitlog>>

\* the log settles (a failure and the 15 s timeout both reject); on success
\* the output is parsed and the store phase begins.  Express: the old commits
\* are deleted, up to the await of the delete.  Serverless: the new list
\* replaces the old one and the status is written, up to the await of fs.rm.
\* Commit listing: the classified commits are the return value; up to the
\* await of fs.rm.
Parse(q) ==
  /\ runs[q].pc = "awaitLog"
  /\ \/ \E n \in 1..MaxHash :
          CASE impl = "express" ->
                 /\ commits' = deleteRepositoryCommits(runs[q].repoId)
                 /\ runs' = [runs EXCEPT ![q] =
                               [@ EXCEPT !.pc = "awaitDelete", !.parsed = GitLog(n),
                                         !.deleted = TRUE]]
                 /\ UNCHANGED repositories
            [] impl = "vercel" ->
                 /\ commits' = setRepositoryCommits(runs[q].repoId, GitLog(n))
                 /\ repositories' = updateRepositoryStatus(runs[q].repoId, "completed")
                 /\ runs' = [runs EXCEPT ![q] =
                               [@ EXCEPT !.pc = "awaitRm", !.parsed = GitLog(n),
                                         !.idx = n, !.deleted = TRUE, !.created = n,
                                         !.wrote = "completed"]]
            [] impl = "direct" ->
                 /\ runs' = [runs EXCEPT ![q] =
                               [@ EXCEPT !.pc = "awaitRm", !.parsed = GitLog(n)]]
                 /\ UNCHANGED <<repositories, commits>>
     \/ /\ Catch(q, "log")
        /\ UNCHANGED commits
  /\ UNCHANGED <<impl, handlers, disk, poller, cls, page, agg, ui, gitlog>>

\* Express store loop: one createCommit per iteration, up to its await
CreateCommit(q) ==
  /\ impl = "express"
  /\ runs[q].pc \in {"awaitDelete", "awaitCreate"}
  /\ runs[q].idx < Len(runs[q].parsed)
  /\ commits' = createCommit(commits, newCommit(runs[q].repoId, runs[q].parsed[runs[q].idx + 1]))
  /\ runs' = [runs EXCEPT ![q] =
                [@ EXCEPT !.pc = "awaitCreate", !.idx = @ + 1, !.created = @ + 1]]
  /\ UNCHANGED <<impl, repositories, handlers, disk, poller, cls, page, agg, ui, gitlog>>

\* mutant: the completed status is written while the loop is still running
Complete_early(q) ==
  /\ impl = "express"
  /\ runs[q].pc \in {"awaitDelete", "awaitCreate"}
  /\ repositories' = updateRepositoryStatus(runs[q].repoId, "completed")
  /\ runs' = [runs EXCEPT ![q] = [@ EXCEPT !.pc = "awaitCompleted", !.wrote = "completed"]]
  /\ UNCHANGED <<impl, commits, handlers, disk, poller, cls, page, agg, ui, gitlog>>

\* Express: the loop is over, the completed status is written
Complete(q) ==
  /\ impl = "express"
  /\ runs[q].pc \in {"awaitDelete", "awaitCreate"}
  /\ runs[q].idx = Len(runs[q].parsed)
  /\ repositories' = updateRepositoryStatus(runs[q].repoId, "completed")
  /\ runs' = [runs EXCEPT ![q] = [@ EXCEPT !.pc = "awaitCompleted", !.wrote = "completed"]]
  /\ UNCHANGED <<impl, commits, handlers, disk, poller, cls, page, agg, ui, gitlog>>

\* mutant: the directory is removed on the success path only
Finally_skipsOnError(q) ==
  /\ impl = "express"
  /\ runs[q].pc \in {"awaitCompleted", "awaitError"}
  /\ runs' = [runs EXCEPT ![q] =
                [@ EXCEPT !.pc = IF runs[q].tempDir /\ runs[q].pc = "awaitCompleted"
                                 THEN "awaitRm" ELSE "done"]]
  /\ UNCHANGED <<impl, repositories, commits, handlers, disk, poller, cls, page, agg, ui, gitlog>>

\* Express finally block, entered after the completed or the error write
Finally(q) ==
  /\ impl = "express"
  /\ runs[q].pc \in {"awaitCompleted", "awaitError"}
  /\ runs' = [runs EXCEPT ![q] = [@ EXCEPT !.pc = IF runs[q].tempDir THEN "awaitRm" ELSE "done"]]
  /\ UNCHANGED <<impl, repositories, commits, handlers, disk, poller, cls, page, agg, ui, gitlog>>

\* fs.rm(tempDir, {recursive, force}) settles and the run ends
RmTempDir(q) ==
  /\ runs[q].pc = "awaitRm"
  /\ disk' = disk \ {q}
  /\ runs' = [runs EXCEPT ![q] =
                IF impl = "direct"
                THEN [@ EXCEPT !.pc = "done"]
                ELSE [NoRun EXCEPT !.pc = "done", !.repoId = runs[q].repoId,
                                   !.madeDir = runs[q].madeDir]]
  /\ UNCHANGED <<impl, repositories, commits, handlers, poller, cls, page, agg, ui, gitlog>>

\* ------------------------------------------------- the commit-list poller
\* the timeline is given the id of an analyze response and starts its query
PollStart(q) ==
  /\ impl = "express"
  /\ poller.pc = "off"
  /\ handlers[q].response # <<>>
  /\ poller' = [poller EXCEPT !.pc = "polling", !.repositoryId = handlers[q].response[1].id]
  /\ UNCHANGED <<impl, repositories, commits, handlers, runs, disk, cls, page, agg, ui, gitlog>>

\* refetchInterval: poll again in 2000 ms while the list is empty, else stop
refetchInterval(data) == IF Len(data) > 0 THEN FALSE ELSE TRUE

\* one fetch of GET /api/repositories/:id/commits
Poll ==
  /\ impl = "express"
  /\ poller.pc = "polling"
  /\ LET data == getRepositoryCommits(poller.repositoryId)
     IN  poller' = [poller EXCEPT
                      !.data = data,
                      !.pc = IF refetchInterval(data) THEN "polling" ELSE "settled",
                      !.seenStatus = getRepository(poller.repositoryId)[1].status]
  /\ UNCHANGED <<impl, repositories, commits, handlers, runs, disk, cls, page, agg, ui, gitlog>>

\* ------------------------------------------------------- specification
\* ---------------------------------- the commit-listing handler (by URL)
\* GET with id and url: analyzeGitRepository(url) is awaited; it runs to the
\* await of fs.mkdir
DirectCommits(q, url) ==
  /\ impl = "direct"
  /\ handlers[q].pc = "idle"
  /\ \A p \in 1..(q - 1) : handlers[p].pc # "idle"
  /\ handlers' = [handlers EXCEPT ![q] = [@ EXCEPT !.pc = "awaitAnalyze", !.url = url]]
  /\ runs' = [runs EXCEPT ![q] = [@ EXCEPT !.pc = "awaitMkdir", !.tempDir = TRUE]]
  /\ UNCHANGED <<impl, repositories, commits, disk, poller, cls, page, agg, ui, gitlog>>

\* the run has ended: its commits are sent with the id of the query, or the
\* rethrown failure is answered with status 500
DirectRespond(q) ==
  /\ impl = "direct"
  /\ handlers[q].pc = "awaitAnalyze"
  /\ runs[q].pc = "done"
  /\ handlers' = [handlers EXCEPT ![q] =
       [@ EXCEPT !.pc = "done",
                 !.response =
                   IF runs[q].failure = "none"
                   THEN <<[code |-> 200,
                           commits |-> [i \in 1..Len(runs[q].parsed) |->
                                          newCommit(q, runs[q].parsed[i])]]>>
                   ELSE <<[code |-> 500, commits |-> <<>>]>>]]
  /\ runs' = [runs EXCEPT ![q] = [NoRun EXCEPT !.pc = "done", !.madeDir = runs[q].madeDir]]
  /\ UNCHANGED <<impl, repositories, commits, disk, poller, cls, page, agg, ui, gitlog>>

Next ==
  \/ \E q \in Requests, url \in Urls : AnalyzeRequest(q, url)
  \/ \E q \in Requests : AnalyzeCreate(q)
  \/ \E q \in Requests : AnalyzeStart(q)
  \/ \E q \in Requests, url \in Urls : VercelAnalyze(q, url)
  \/ \E q \in Requests : Mkdir(q)
  \/ \E q \in Requests : Clone(q)
  \/ \E q \in Requests : Log(q)
  \/ \E q \in Requests : Parse(q)
  \/ \E q \in Requests : CreateCommit(q)
  \/ \E q \in Requests : Complete(q)
  \/ \E q \in Requests : Finally(q)
  \/ \E q \in Requests : RmTempDir(q)
  \/ \E q \in Requests, url \in Urls : DirectCommits(q, url)
  \/ \E q \in Requests : DirectRespond(q)

Spec == Init /\ [][Next]_vars

\* the server together with one timeline client
NextPoll ==
  \/ Next
  \/ \E q \in Requests : PollStart(q)
  \/ Poll

SpecPoll == Init /\ [][NextPoll]_vars

\* ------------------------------------- the ingestion runs under scheduling
\* the step a started run of request q waits for
RunStep(q) ==
  \/ Mkdir(q)
  \/ Clone(q)
  \/ Log(q)
  \/ Parse(q)
  \/ CreateCommit(q)
  \/ Complete(q)
  \/ Finally(q)
  \/ RmTempDir(q)

\* every awaited promise of a run settles: the store's and the file system's
\* promises resolve, the clone ends or is killed after 30 s, the log ends or
\* is killed after 15 s; requests arrive or not
SpecRuns == Spec /\ \A q \in Requests : WF_vars(RunStep(q))

\* ------------------------------------------- classifier specification
\* inputs: messages of up to MaxWords words, file lists of up to MaxFiles
\* named files followed by a run of plain source files
Words == {<<"F","i","x">>, <<"p","r","e","f","i","x">>, <<"a","d","d">>, <<"n","e","w">>, <<"u","p","d","a","t","e">>, <<"I","n","i","t","i","a","l"," ","c","o","m","m","i","t">>,
          <<"d","o","c","k","e","r">>, <<"r","e","a","d","m","e">>, <<"t","e","s","t">>, <<"w","i","p">>}
FileNames == {<<"d","o","c","k","e","r","-","c","o","m","p","o","s","e",".","y","m","l">>, <<"R","E","A","D","M","E",".","m","d">>, <<"s","r","c","/","a","p","i",".","t","s">>, <<"m","a","i","n",".","c">>}
PadCounts == {0, 8, 15}

RECURSIVE SeqsUpTo(_, _)
SeqsUpTo(set, n) ==
  IF n = 0 THEN {<<>>}
  ELSE LET shorter == SeqsUpTo(set, n - 1)
       IN  shorter \cup {Append(s, x) : s \in shorter, x \in set}

Messages == {join(ws, <<" ">>) : ws \in SeqsUpTo(Words, MaxWords)}
FileLists == {named \o [i \in 1..pad |-> <<"l","i","b",".","t","s">>] :
                named \in SeqsUpTo(FileNames, MaxFiles), pad \in PadCounts}

InitClassify ==
  /\ impl = "express"
  /\ repositories = <<>>
  /\ commits = NoCommits
  /\ handlers = [q \in Requests |-> IdleHandler]
  /\ runs = [q \in Requests |-> NoRun]
  /\ disk = {}
  /\ poller = PollerOff
  /\ ui = NoUi
  /\ gitlog = NoGitLog
  /\ page = NoPage
  /\ agg = NoAgg
  /\ \E message \in Messages, files \in FileLists :
       cls = [phase |-> "input", message |-> message, files |-> files,
              local |-> "", remote |-> <<>>, client |-> ""]

\* the local-clone ingester classifies the commit
ClassifyLocal ==
  /\ cls.phase \in {"input", "remote"}
  /\ cls' = [cls EXCEPT !.local = categorizeCommit(cls.message, cls.files),
                        !.phase = IF cls.phase = "input" THEN "local" ELSE "both"]
  /\ UNCHANGED <<ingestVars, remoteVars, ui, gitlog>>

\* the remote-API ingester classifies the commit
ClassifyRemote ==
  /\ cls.phase \in {"input", "local"}
  /\ cls' = [cls EXCEPT !.remote = categorizeCommitRemote(cls.message, cls.files),
                        !.phase = IF cls.phase = "input" THEN "remote" ELSE "both"]
  /\ UNCHANGED <<ingestVars, remoteVars, ui, gitlog>>

NextClassify == ClassifyLocal \/ ClassifyRemote

SpecClassify == InitClassify /\ [][NextClassify]_vars
\* ------------------------------------- the client library's classifier
\* src/client/src/lib/git-parser.ts: a third copy of the local classifier
\* msg.match(/^(w1|w2|..)[\s:]/): the message starts with one of the words,
\* followed by white space or a colon
startsWithWord(msg, words) ==
  \E w \in words :
    /\ Len(msg) > Len(w)
    /\ SubSeq(msg, 1, Len(w)) = w
    /\ msg[Len(w) + 1] \in {" ", ":"}

hasArchFilesClient(files) ==
  \E i \in 1..Len(files) :
    \/ includes(files[i], <<"d","o","c","k","e","r">>)
    \/ includes(files[i], <<"c","o","n","f","i","g">>)
    \/ includes(files[i], <<"m","i","g","r","a","t","i","o","n">>)
    \/ includes(files[i], <<"s","e","t","u","p">>)
    \/ includes(files[i], <<"i","n","f","r","a">>)
    \/ includes(files[i], <<".","y","m","l">>)
    \/ includes(files[i], <<".","y","a","m","l">>)
    \/ includes(files[i], <<"p","a","c","k","a","g","e",".","j","s","o","n">>)
    \/ includes(files[i], <<"r","e","q","u","i","r","e","m","e","n","t","s",".","t","x","t">>)

categorizeCommitClient(message, files) ==
  LET msg == toLowerCase(message)
      fileCount == Len(files)
  IN  IF \/ hasArchFilesClient(files)
         \/ includes(msg, <<"m","i","g","r","a","t","e">>) \/ includes(msg, <<"a","r","c","h","i","t","e","c","t","u","r","e">>)
         \/ includes(msg, <<"i","n","f","r","a","s","t","r","u","c","t","u","r","e">>) \/ includes(msg, <<"d","o","c","k","e","r">>)
         \/ includes(msg, <<"d","e","p","l","o","y">>) \/ includes(msg, <<"c","i","/","c","d">>)
         \/ includes(msg, <<"p","i","p","e","l","i","n","e">>)
         \/ fileCount > 15
      THEN "architecture"
      ELSE IF \/ includes(msg, <<"f","e","a","t",":">>) \/ includes(msg, <<"f","e","a","t","u","r","e",":">>)
              \/ includes(msg, <<"a","d","d",":">>) \/ includes(msg, <<"i","m","p","l","e","m","e","n","t">>)
              \/ includes(msg, <<"l","a","u","n","c","h">>) \/ includes(msg, <<"r","e","l","e","a","s","e">>)
              \/ includes(msg, <<"i","n","t","r","o","d","u","c","e">>)
              \/ startsWithWord(msg, {<<"a","d","d">>, <<"f","e","a","t">>, <<"f","e","a","t","u","r","e">>})
              \/ fileCount > 8
      THEN "major-feature"
      ELSE IF \/ includes(msg, <<"f","i","x",":">>) \/ includes(msg, <<"b","u","g",":">>)
              \/ includes(msg, <<"h","o","t","f","i","x">>) \/ includes(msg, <<"p","a","t","c","h">>)
              \/ includes(msg, <<"r","e","s","o","l","v","e">>)
              \/ startsWithWord(msg, {<<"f","i","x">>, <<"b","u","g">>, <<"h","o","t","f","i","x">>})
      THEN "bug-fix"
      ELSE IF \/ includes(msg, <<"r","e","f","a","c","t","o","r",":">>) \/ includes(msg, <<"o","p","t","i","m","i","z","e">>)
              \/ includes(msg, <<"i","m","p","r","o","v","e">>) \/ includes(msg, <<"c","l","e","a","n">>)
              \/ includes(msg, <<"r","e","s","t","r","u","c","t","u","r","e">>) \/ includes(msg, <<"u","p","d","a","t","e">>)
              \/ includes(msg, <<"r","e","n","a","m","e">>)
              \/ startsWithWord(msg, {<<"r","e","f","a","c","t","o","r">>, <<"o","p","t","i","m","i","z","e">>, <<"i","m","p","r","o","v","e">>,
                                      <<"u","p","d","a","t","e">>})
      THEN "refactor"
      ELSE "minor-feature"

\* -------------------- classifier specification over all three classifiers
\* inputs around the file rule: paths with and without "docker", messages
\* with and without the initial-commit phrases
PathWords == {<<"I","n","i","t","i","a","l"," ","c","o","m","m","i","t">>, <<"m","y"," ","f","i","r","s","t"," ","c","o","m","m","i","t">>, <<"w","i","p">>, <<"F","i","x">>, <<"a","d","d">>}
PathFileNames == {<<"d","o","c","k","e","r","-","c","o","m","p","o","s","e",".","y","m","l">>, <<"o","p","s","/","d","o","c","k","e","r","/","r","u","n",".","s","h">>, <<"R","E","A","D","M","E",".","m","d">>,
                  <<"m","a","i","n",".","c">>}
PathMessages == {join(ws, <<" ">>) : ws \in SeqsUpTo(PathWords, MaxWords)}
PathFileLists == SeqsUpTo(PathFileNames, MaxFiles)

InitClassifyPaths ==
  /\ impl = "express"
  /\ repositories = <<>>
  /\ commits = NoCommits
  /\ handlers = [q \in Requests |-> IdleHandler]
  /\ runs = [q \in Requests |-> NoRun]
  /\ disk = {}
  /\ poller = PollerOff
  /\ ui = NoUi
  /\ gitlog = NoGitLog
  /\ page = NoPage
  /\ agg = NoAgg
  /\ \E message \in PathMessages, files \in PathFileLists :
       cls = [phase |-> "input", message |-> message, files |-> files,
              local |-> "", remote |-> <<>>, client |-> ""]

\* the client library classifies the commit
ClassifyClient ==
  /\ cls.phase # "off"
  /\ cls.client = ""
  /\ cls' = [cls EXCEPT !.client = categorizeCommitClient(cls.message, cls.files)]
  /\ UNCHANGED <<ingestVars, remoteVars, ui, gitlog>>

NextClassifyPaths == ClassifyLocal \/ ClassifyRemote \/ ClassifyClient

SpecClassifyPaths == InitClassifyPaths /\ [][NextClassifyPaths]_vars

\* ------------------------- classifier specification of the remote path
\* inputs that reach every rule of the remote classifier, by message keyword
\* and by file name
RemoteWords == {<<"I","n","i","t","i","a","l"," ","c","o","m","m","i","t">>, <<"A","d","d">>, <<"b","u","g","f","i","x">>, <<"d","o","c","s">>, <<"c","o","n","f","i","g">>,
                <<"t","e","s","t">>, <<"R","e","f","a","c","t","o","r">>, <<"w","i","p">>}
RemoteFileNames == {<<"s","r","c","/","a","p","i","/","u","i",".","t","s">>, <<"s","r","c","/","e","n","d","p","o","i","n","t",".","t","s">>, <<"B","u","t","t","o","n",".","c","o","m","p","o","n","e","n","t",".","t","s","x">>,
                    <<"R","E","A","D","M","E",".","m","d">>, <<"p","a","c","k","a","g","e",".","j","s","o","n">>, <<"p","a","r","s","e","r",".","s","p","e","c",".","t","s">>,
                    <<"m","a","i","n",".","c">>}
RemoteMessages == {join(ws, <<" ">>) : ws \in SeqsUpTo(RemoteWords, MaxWords)}
RemoteFileLists == SeqsUpTo(RemoteFileNames, MaxFiles)

InitClassifyRemote ==
  /\ impl = "vercel"
  /\ repositories = <<>>
  /\ commits = NoCommits
  /\ handlers = [q \in Requests |-> IdleHandler]
  /\ runs = [q \in Requests |-> NoRun]
  /\ disk = {}
  /\ poller = PollerOff
  /\ ui = NoUi
  /\ gitlog = NoGitLog
  /\ page = NoPage
  /\ agg = NoAgg
  /\ \E message \in RemoteMessages, files \in RemoteFileLists :
       cls = [phase |-> "input", message |-> message, files |-> files,
              local |-> "", remote |-> <<>>, client |-> ""]

NextClassifyRemote == ClassifyRemote

SpecClassifyRemote == InitClassifyRemote /\ [][NextClassifyRemote]_vars
\* ------------------------------------------ remote path: upstream history
\* per_page of the commit-list request, and the number of leading commits
\* whose detail is fetched
perPage == 30
detailLimit == 10

\* the commits the upstream API can serve, by kind: message, git author
\* name, linked account (login, "" when the commit has none), author date
\* and the changed files of the commit's detail
Kinds == 1..6
KindInfo(k) ==
  CASE k = 1 -> [message |-> <<"A","d","d"," ","a","p","i">>, name |-> "Alice A", login |-> "alice",
                 date |-> 5, files |-> <<<<"s","r","c","/","a","p","i","/","u","i",".","t","s">>>>]
    [] k = 2 -> [message |-> <<"F","i","x"," ","c","r","a","s","h">>, name |-> "Alice A", login |-> "alice",
                 date |-> 2, files |-> <<<<"m","a","i","n",".","c">>>>]
    [] k = 3 -> [message |-> <<"w","i","p">>, name |-> "Bob B", login |-> "bob",
                 date |-> 4, files |-> <<<<"m","a","i","n",".","c">>>>]
    [] k = 4 -> [message |-> <<"d","o","c","s">>, name |-> "Carol C", login |-> "carol",
                 date |-> 3, files |-> <<<<"R","E","A","D","M","E",".","m","d">>>>]
    [] k = 5 -> [message |-> <<"I","n","i","t","i","a","l"," ","c","o","m","m","i","t">>, name |-> "Dave D", login |-> "dave",
                 date |-> 1, files |-> <<<<"p","a","c","k","a","g","e",".","j","s","o","n">>>>]
    [] k = 6 -> [message |-> <<"t","e","s","t">>, name |-> "constructor", login |-> "",
                 date |-> 6, files |-> <<<<"a",".","s","p","e","c",".","t","s">>>>]
    [] k = 7 -> [message |-> <<"T","u","n","e"," ","b","u","i","l","d">>, name |-> "Erin E", login |-> "erin",
                 date |-> 7, files |-> <<<<"t","s","c","o","n","f","i","g",".","j","s","o","n">>>>]
    [] OTHER -> [message |-> <<"R","e","f","a","c","t","o","r"," ","p","a","r","s","e","r">>, name |-> "Frank F", login |-> "",
                 date |-> 8, files |-> <<<<"p","a","r","s","e","r",".","t","s">>>>]

\* an item of the commit-list response: no stats and no files
summaryOf(sha, k) ==
  [sha |-> sha, message |-> KindInfo(k).message, name |-> KindInfo(k).name,
   login |-> KindInfo(k).login, date |-> KindInfo(k).date,
   stats |-> <<>>, files |-> <<>>]

\* the body of the commit-detail response for a sha
detailOf(sha, k) ==
  [stats |-> [additions |-> sha, deletions |-> 1, total |-> sha + 1],
   files |-> [i \in 1..Len(KindInfo(k).files) |->
                [filename |-> KindInfo(k).files[i], additions |-> sha, deletions |-> 1]]]

\* { ...commit, stats: detail.stats, files: detail.files }
hydrate(commit, detail) ==
  [commit EXCEPT !.stats = <<detail.stats>>, !.files = <<detail.files>>]

\* -------------------------------------------- remote path: the transform
analysisOf(message, files) ==
  categorizeCommitRemote(message, [i \in 1..Len(files) |-> files[i].filename])

\* commit.stats || { additions: 0, deletions: 0, total: 0 }, commit.files || []
transform(commit) ==
  LET files == IF commit.files = <<>> THEN <<>> ELSE commit.files[1]
      analysis == analysisOf(commit.message, files)
  IN  [id |-> commit.sha,
       message |-> commit.message,
       author |-> [name |-> commit.name,
                   username |-> IF commit.login # "" THEN commit.login ELSE commit.name],
       date |-> commit.date,
       type |-> analysis.type,
       category |-> analysis.category,
       importance |-> analysis.importance,
       tags |-> analysis.tags,
       stats |-> IF commit.stats = <<>>
                 THEN [additions |-> 0, deletions |-> 0, total |-> 0]
                 ELSE commit.stats[1],
       files |-> files]

\* ------------------------------------------- remote path: the aggregator
\* Array.from(new Set(seq)): first occurrences, in order
RECURSIVE unique(_)
unique(seq) ==
  IF seq = <<>> THEN <<>>
  ELSE LET front == unique(SubSeq(seq, 1, Len(seq) - 1))
           last == seq[Len(seq)]
       IN  IF \E i \in 1..Len(front) : front[i] = last THEN front ELSE Append(front, last)

\* seq.slice(0, n)
slice(seq, n) == SubSeq(seq, 1, IF Len(seq) < n THEN Len(seq) ELSE n)

\* Array.prototype.sort with (a, b) => b.key - a.key: stable, descending
RECURSIVE insertDesc(_, _, _)
insertDesc(sorted, i, keys) ==
  IF sorted = <<>> THEN <<i>>
  ELSE IF keys[sorted[1]] >= keys[i]
       THEN <<sorted[1]>> \o insertDesc(Tail(sorted), i, keys)
       ELSE <<i>> \o sorted

RECURSIVE sortedIndices(_, _)
sortedIndices(n, keys) ==
  IF n = 0 THEN <<>> ELSE insertDesc(sortedIndices(n - 1, keys), n, keys)

sortDesc(items, keys) ==
  LET order == sortedIndices(Len(items), keys)
  IN  [j \in 1..Len(items) |-> items[order[j]]]

\* the accumulators are plain objects ({}): a key that names a member
\* inherited from Object.prototype reads as set before it was ever written
ObjectPrototypeNames == {"constructor", "toString", "valueOf", "hasOwnProperty",
                         "isPrototypeOf", "propertyIsEnumerable", "toLocaleString",
                         "__proto__"}

\* mutant: a key seen again is not counted again
RECURSIVE countBy_once(_)
countBy_once(keys) ==
  IF keys = <<>> THEN <<>>
  ELSE LET acc == countBy_once(SubSeq(keys, 1, Len(keys) - 1))
           key == keys[Len(keys)]
       IN  IF \E i \in 1..Len(acc) : acc[i].key = key
           THEN acc
           ELSE Append(acc, [key |-> key, count |-> 1])

\* counts per key, keys in insertion order
RECURSIVE countBy(_)
countBy(keys) ==
  IF keys = <<>> THEN <<>>
  ELSE LET acc == countBy(SubSeq(keys, 1, Len(keys) - 1))
           key == keys[Len(keys)]
       IN  IF \E i \in 1..Len(acc) : acc[i].key = key
           THEN [i \in 1..Len(acc) |->
                   IF acc[i].key = key THEN [acc[i] EXCEPT !.count = @ + 1] ELSE acc[i]]
           ELSE Append(acc, [key |-> key, count |-> 1])

\* insights.contributors: one entry per username, in insertion order
RECURSIVE contributorsOf(_)
contributorsOf(cs) ==
  IF cs = <<>> THEN <<>>
  ELSE LET acc == contributorsOf(SubSeq(cs, 1, Len(cs) - 1))
           commit == cs[Len(cs)]
           username == commit.author.username
       IN  IF \E i \in 1..Len(acc) : acc[i].username = username
           THEN [i \in 1..Len(acc) |->
                   IF acc[i].username = username
                   THEN [acc[i] EXCEPT !.commits = @ + 1,
                                       !.expertise = unique(@ \o commit.tags)]
                   ELSE acc[i]]
           ELSE Append(acc, [name |-> commit.author.name, username |-> username,
                             commits |-> 1, expertise |-> unique(commit.tags)])

\* the contributors reducer throws: acc[username] is an inherited member, so
\* the entry is not initialised and the spread of its expertise is a TypeError
contributorsThrows(cs) ==
  \E i \in 1..Len(cs) : cs[i].author.username \in ObjectPrototypeNames

RECURSIVE allTags(_)
allTags(cs) ==
  IF cs = <<>> THEN <<>> ELSE allTags(SubSeq(cs, 1, Len(cs) - 1)) \o cs[Len(cs)].tags

\* mutant: the percentage is truncated
percentage_truncated(count, length) == (100 * count) \div length

\* Math.round(count / length * 100), for count >= 0 and length > 0: count /
\* length * 100 is within a few ulp of the quotient, and up to the page size
\* every quotient that ends in .5 is a multiple of 1/8, which is exact
percentage(count, length) == (200 * count + length) \div (2 * length)

insightsOf(cs) ==
  [timeline |->
     [totalCommits |-> Len(cs),
      firstCommit |-> IF cs = <<>> THEN <<>> ELSE <<cs[Len(cs)].date>>,
      lastCommit |-> IF cs = <<>> THEN <<>> ELSE <<cs[1].date>>,
      activeContributors |-> Cardinality({cs[i].author.username : i \in 1..Len(cs)})],
   categories |-> countBy([i \in 1..Len(cs) |-> cs[i].type]),
   contributors |-> contributorsOf(cs),
   hotSpots |->
     [mostActive |-> countBy(allTags(cs)),
      recentTrends |-> [i \in 1..Len(slice(cs, 10)) |->
                          [type |-> cs[i].type, date |-> cs[i].date,
                           message |-> cs[i].message]]]]

onboardingOf(cs, insights) ==
  LET contributors == insights.contributors
      byCommits == sortDesc(contributors,
                            [i \in 1..Len(contributors) |-> contributors[i].commits])
      top == slice(byCommits, 3)
      categories == insights.categories
      byCount == sortDesc(categories, [i \in 1..Len(categories) |-> categories[i].count])
      focus == slice(byCount, 5)
  IN  [projectStory |-> [commits |-> Len(cs),
                         contributors |-> insights.timeline.activeContributors],
       expertContacts |-> [i \in 1..Len(top) |->
                             [username |-> top[i].username,
                              expertise |-> slice(top[i].expertise, 3),
                              commits |-> top[i].commits]],
       focusAreas |-> [i \in 1..Len(focus) |->
                         [type |-> focus[i].key, count |-> focus[i].count,
                          percentage |-> percentage(focus[i].count, Len(cs))]]]

\* mutant: any non-empty page announces a further page
paginationOf_nonEmpty(count, pageNumber) ==
  [page |-> pageNumber, perPage |-> perPage, hasMore |-> count > 0]

\* the pagination block of the response
paginationOf(count, pageNumber) ==
  [page |-> pageNumber, perPage |-> perPage, hasMore |-> count = perPage]

\* the handler from the transform to the response, for the commits it holds
\* after hydration: the page body, or the 500 of the catch block
pageBody(allCommits, pageNumber) ==
  LET cs == [i \in 1..Len(allCommits) |-> transform(allCommits[i])]
      insights == insightsOf(cs)
  IN  IF contributorsThrows(cs)
      THEN [status |-> 500, message |-> "Failed to fetch commits",
            error |-> <<"a","c","c","[","u","s","e","r","n","a","m","e","]",".","e","x","p","e","r","t","i","s","e"," ","i","s"," ","n","o","t"," ","i","t","e","r","a","b","l","e">>]
      ELSE [status |-> 200,
            commits |-> cs,
            insights |-> insights,
            onboarding |-> onboardingOf(cs, insights),
            pagination |-> paginationOf(Len(cs), pageNumber)]

\* ----------------------------------------- the aggregator specification
MaxCommits == 5

InitInsights ==
  /\ impl = "vercel"
  /\ repositories = <<>>
  /\ commits = NoCommits
  /\ handlers = [q \in Requests |-> IdleHandler]
  /\ runs = [q \in Requests |-> NoRun]
  /\ disk = {}
  /\ poller = PollerOff
  /\ ui = NoUi
  /\ gitlog = NoGitLog
  /\ cls = NoCls
  /\ page = NoPage
  /\ \E kinds \in SeqsUpTo(Kinds, MaxCommits) :
       agg = [phase |-> "input",
              commits |-> [i \in 1..Len(kinds) |->
                             hydrate(summaryOf(i, kinds[i]), detailOf(i, kinds[i]))],
              result |-> <<>>]

\* the handler transforms the commits and derives insights and onboarding
Aggregate ==
  /\ agg.phase = "input"
  /\ agg' = [agg EXCEPT !.phase = "done", !.result = pageBody(agg.commits, 1)]
  /\ UNCHANGED <<ingestVars, cls, page, ui, gitlog>>

NextInsights == Aggregate

SpecInsights == InitInsights /\ [][NextInsights]_vars

\* ------------------------------- the aggregator over many commit types
\* commit sets of up to six types, one kind of commit for each type
FocusKinds == {1, 2, 4, 5, 7, 8}
MaxFocus == 6

InitFocus ==
  /\ impl = "vercel"
  /\ repositories = <<>>
  /\ commits = NoCommits
  /\ handlers = [q \in Requests |-> IdleHandler]
  /\ runs = [q \in Requests |-> NoRun]
  /\ disk = {}
  /\ poller = PollerOff
  /\ ui = NoUi
  /\ gitlog = NoGitLog
  /\ cls = NoCls
  /\ page = NoPage
  /\ \E kinds \in SeqsUpTo(FocusKinds, MaxFocus) :
       agg = [phase |-> "input",
              commits |-> [i \in 1..Len(kinds) |->
                             hydrate(summaryOf(i, kinds[i]), detailOf(i, kinds[i]))],
              result |-> <<>>]

NextFocus == Aggregate

SpecFocus == InitFocus /\ [][NextFocus]_vars
\* --------------------------------------- remote path: the page handler
\* `${status}`: the decimal digits of a number
RECURSIVE toString(_)
toString(n) ==
  LET digit == SubSeq(<<"0","1","2","3","4","5","6","7","8","9">>, (n % 10) + 1, (n % 10) + 1)
  IN  IF n < 10 THEN digit ELSE toString(n \div 10) \o digit

\* non-2xx responses of the upstream API: status, status text and the
\* message of the JSON body (none when the body is not JSON)
UpstreamErrors ==
  { [status |-> 403, statusText |-> <<"F","o","r","b","i","d","d","e","n">>,
     message |-> <<<<"R","e","s","o","u","r","c","e"," ","p","r","o","t","e","c","t","e","d",";"," ","f","i","n","e","-","g","r","a","i","n","e","d"," ","p","e","r","s","o","n","a","l"," ","a","c","c","e","s","s"," ","t","o","k","e","n"," ","d","e","n","i","e","d">>>>],
    [status |-> 403, statusText |-> <<"F","o","r","b","i","d","d","e","n">>,
     message |-> <<<<"A","P","I"," ","r","a","t","e"," ","l","i","m","i","t"," ","e","x","c","e","e","d","e","d"," ","f","o","r"," ","1","0",".","0",".","0",".","1">>>>],
    [status |-> 403, statusText |-> <<"F","o","r","b","i","d","d","e","n">>,
     message |-> <<<<"R","e","p","o","s","i","t","o","r","y"," ","a","c","c","e","s","s"," ","b","l","o","c","k","e","d">>>>],
    [status |-> 403, statusText |-> <<"F","o","r","b","i","d","d","e","n">>, message |-> <<>>],
    [status |-> 404, statusText |-> <<"N","o","t"," ","F","o","u","n","d">>, message |-> <<<<"N","o","t"," ","F","o","u","n","d">>>>],
    [status |-> 500, statusText |-> <<"I","n","t","e","r","n","a","l"," ","S","e","r","v","e","r"," ","E","r","r","o","r">>, message |-> <<>>] }

\* errorData.message?.includes(k)
messageIncludes(upstreamError, k) ==
  upstreamError.message # <<>> /\ includes(upstreamError.message[1], k)

\* the catch block of the handler, for the message of the caught error
catchResponse(errorMessage) ==
  IF includes(errorMessage, <<"r","a","t","e"," ","l","i","m","i","t">>) \/ includes(errorMessage, <<"4","0","3">>)
  THEN [status |-> 403, message |-> "GitHub API rate limit exceeded",
        error |-> <<"r","a","t","e","_","l","i","m","i","t","_","e","x","c","e","e","d","e","d">>, details |-> errorMessage]
  ELSE [status |-> 500, message |-> "Failed to fetch commits", error |-> errorMessage]

\* the handling of a non-2xx metadata or commit-list response
upstreamFailure(upstreamError) ==
  IF upstreamError.status = 403
     /\ messageIncludes(upstreamError, <<"f","i","n","e","-","g","r","a","i","n","e","d"," ","p","e","r","s","o","n","a","l"," ","a","c","c","e","s","s"," ","t","o","k","e","n">>)
  THEN [status |-> 403, message |-> "GitHub token type not allowed for this repository",
        error |-> <<"t","o","k","e","n","_","t","y","p","e","_","r","e","s","t","r","i","c","t","e","d">>]
  ELSE IF upstreamError.status = 403 /\ messageIncludes(upstreamError, <<"r","a","t","e"," ","l","i","m","i","t">>)
  THEN [status |-> 403, message |-> "GitHub API rate limit exceeded",
        error |-> <<"r","a","t","e","_","l","i","m","i","t","_","e","x","c","e","e","d","e","d">>]
  ELSE catchResponse(<<"G","i","t","H","u","b"," ","A","P","I"," ","e","r","r","o","r",":"," ">> \o toString(upstreamError.status)
                       \o <<" ","-"," ">> \o upstreamError.statusText)

\* page lengths the upstream serves: short pages, a page one longer than
\* the hydrated prefix, and a full page
MaxShort == 3
PageLengths == (0..MaxShort) \cup {detailLimit + 1, perPage}
PageNumbers == {1, 2}

\* the contributors of the served history have ordinary handles
kindOfSha(sha) == ((sha - 1) % 5) + 1

\* commitsData of page pageNumber when it holds n commits
commitsData(pageNumber, n) ==
  [i \in 1..n |-> LET sha == (pageNumber - 1) * perPage + i
                  IN  summaryOf(sha, kindOfSha(sha))]

IdlePage == [pc |-> "idle", pageNumber |-> 0, upstream |-> <<>>, details |-> <<>>,
             issued |-> {}, failedDetails |-> {}, failed |-> <<>>, response |-> <<>>]

InitPage ==
  /\ impl = "vercel"
  /\ repositories = <<>>
  /\ commits = NoCommits
  /\ handlers = [q \in Requests |-> IdleHandler]
  /\ runs = [q \in Requests |-> NoRun]
  /\ disk = {}
  /\ poller = PollerOff
  /\ ui = NoUi
  /\ gitlog = NoGitLog
  /\ cls = NoCls
  /\ agg = NoAgg
  /\ page = IdlePage

\* the handler up to the metadata request: method, id, url and page of the
\* query are checked; a valid request awaits the metadata response
PageRequest ==
  /\ page.pc = "idle"
  /\ \E method \in {"GET", "OPTIONS", "POST"}, id \in {"", "r1"},
        url \in {"", "not-a-github-url", "https://github.com/o/r"},
        pageNumber \in PageNumbers :
       page' =
         IF method = "OPTIONS"
         THEN [page EXCEPT !.pc = "done", !.response = [status |-> 200]]
         ELSE IF method # "GET"
         THEN [page EXCEPT !.pc = "done",
                 !.response = [status |-> 405, message |-> "Method not allowed"]]
         ELSE IF id = ""
         THEN [page EXCEPT !.pc = "done",
                 !.response = [status |-> 400, message |-> "Repository ID is required"]]
         ELSE IF url = ""
         THEN [page EXCEPT !.pc = "done",
                 !.response = [status |-> 400,
                               message |-> "Repository URL is required as query parameter"]]
         ELSE IF url # "https://github.com/o/r"
         THEN [page EXCEPT !.pc = "done",
                 !.response = [status |-> 400, message |-> "Invalid GitHub URL format"]]
         ELSE [page EXCEPT !.pc = "awaitRepo", !.pageNumber = pageNumber]
  /\ UNCHANGED <<ingestVars, cls, agg, ui, gitlog>>

\* the metadata response arrives with a 2xx status
RepoOk ==
  /\ page.pc = "awaitRepo"
  /\ page' = [page EXCEPT !.pc = "awaitCommits"]
  /\ UNCHANGED <<ingestVars, cls, agg, ui, gitlog>>

\* the metadata response arrives with a non-2xx status
RepoNotOk ==
  /\ page.pc = "awaitRepo"
  /\ \E upstreamError \in UpstreamErrors :
       page' = [page EXCEPT !.pc = "done", !.failed = <<upstreamError>>,
                            !.response = upstreamFailure(upstreamError)]
  /\ UNCHANGED <<ingestVars, cls, agg, ui, gitlog>>

\* a fetch of the metadata or of the commit list rejects: no response at all
FetchThrows ==
  /\ page.pc \in {"awaitRepo", "awaitCommits"}
  /\ page' = [page EXCEPT !.pc = "done", !.response = catchResponse(<<"f","e","t","c","h"," ","f","a","i","l","e","d">>)]
  /\ UNCHANGED <<ingestVars, cls, agg, ui, gitlog>>

\* mutant: the detail of every commit of the page is requested
detailHead_all(data) == data

\* commitsData.slice(0, 10): the commits whose detail is requested
detailHead(data) == slice(data, detailLimit)

\* the commit-list response arrives with n commits: the handler starts the
\* detail requests of the first detailLimit commits, all at once
CommitsOk ==
  /\ page.pc = "awaitCommits"
  /\ \E n \in PageLengths :
       LET data == commitsData(page.pageNumber, n)
           head == detailHead(data)
       IN  page' = [page EXCEPT !.pc = "awaitDetails",
                                !.upstream = data,
                                !.details = [i \in 1..Len(head) |-> <<>>],
                                !.issued = {head[i].sha : i \in 1..Len(head)}]
  /\ UNCHANGED <<ingestVars, cls, agg, ui, gitlog>>

\* the commit-list response arrives with a non-2xx status
CommitsNotOk ==
  /\ page.pc = "awaitCommits"
  /\ \E upstreamError \in UpstreamErrors :
       page' = [page EXCEPT !.pc = "done", !.failed = <<upstreamError>>,
                            !.response = upstreamFailure(upstreamError)]
  /\ UNCHANGED <<ingestVars, cls, agg, ui, gitlog>>

\* mutant: every callback reads the commit of the first iteration
detailResolved_firstCommit(i) ==
  LET commit == page.upstream[1]
  IN  hydrate(commit, detailOf(commit.sha, kindOfSha(commit.sha)))

\* what the promise of the i-th detail request resolves to when the
\* response is ok
detailResolved(i) ==
  LET commit == page.upstream[i]
  IN  hydrate(commit, detailOf(commit.sha, kindOfSha(commit.sha)))

\* the detail response of the i-th commit arrives with a 2xx status
DetailOk(i) ==
  /\ page.pc = "awaitDetails"
  /\ i \in 1..Len(page.details)
  /\ page.details[i] = <<>>
  /\ page' = [page EXCEPT !.details[i] = <<detailResolved(i)>>]
  /\ UNCHANGED <<ingestVars, cls, agg, ui, gitlog>>

\* the detail response of the i-th commit arrives with a non-2xx status
DetailNotOk(i) ==
  /\ page.pc = "awaitDetails"
  /\ i \in 1..Len(page.details)
  /\ page.details[i] = <<>>
  /\ page' = [page EXCEPT !.details[i] = <<page.upstream[i]>>,
                          !.failedDetails = @ \cup {page.upstream[i].sha}]
  /\ UNCHANGED <<ingestVars, cls, agg, ui, gitlog>>

\* mutant: the rejection is not caught in the callback, Promise.all rejects
\* and the catch block of the handler answers
DetailThrows_rejectsPage(i) ==
  /\ page.pc = "awaitDetails"
  /\ i \in 1..Len(page.details)
  /\ page.details[i] = <<>>
  /\ page' = [page EXCEPT !.pc = "done",
                          !.failedDetails = @ \cup {page.upstream[i].sha},
                          !.response = catchResponse(<<"f","e","t","c","h"," ","f","a","i","l","e","d">>)]
  /\ UNCHANGED <<ingestVars, cls, agg, ui, gitlog>>

\* the detail request of the i-th commit rejects, or its body does not parse
DetailThrows(i) ==
  /\ page.pc = "awaitDetails"
  /\ i \in 1..Len(page.details)
  /\ page.details[i] = <<>>
  /\ page' = [page EXCEPT !.details[i] = <<page.upstream[i]>>,
                          !.failedDetails = @ \cup {page.upstream[i].sha}]
  /\ UNCHANGED <<ingestVars, cls, agg, ui, gitlog>>

\* [...detailedCommits, ...commitsData.slice(10)]
allCommits ==
  [i \in 1..Len(page.details) |-> page.details[i][1]]
  \o SubSeq(page.upstream, Len(page.details) + 1, Len(page.upstream))

\* Promise.all has resolved: transform, insights, onboarding and response
PageRespond ==
  /\ page.pc = "awaitDetails"
  /\ \A i \in 1..Len(page.details) : page.details[i] # <<>>
  /\ page' = [page EXCEPT !.pc = "responded",
                          !.response = pageBody(allCommits, page.pageNumber)]
  /\ UNCHANGED <<ingestVars, cls, agg, ui, gitlog>>

NextPage ==
  \/ PageRequest
  \/ RepoOk
  \/ RepoNotOk
  \/ FetchThrows
  \/ CommitsOk
  \/ CommitsNotOk
  \/ \E i \in 1..detailLimit : DetailOk(i) \/ DetailNotOk(i) \/ DetailThrows(i)
  \/ PageRespond

SpecPage == InitPage /\ [][NextPage]_vars

\* ------------------------------- the timeline's page query and its server
\* parseInt(text, 10) of a non-empty string of decimal digits
digitValue(c) == CHOOSE d \in 0..9 : <<"0","1","2","3","4","5","6","7","8","9">>[d + 1] = c

RECURSIVE parseInt(_)
parseInt(text) ==
  IF Len(text) = 1 THEN digitValue(text[1])
  ELSE 10 * parseInt(SubSeq(text, 1, Len(text) - 1)) + digitValue(text[Len(text)])

\* the repositories a session reads: the number of commits of the history
MaxFullPages == 2
Histories == {full * perPage + rest : full \in 0..MaxFullPages, rest \in {0, 1, perPage - 1}}

\* the number of commits the upstream returns for per_page=30&page=pageNumber
pageLength(history, pageNumber) ==
  LET before == (pageNumber - 1) * perPage
  IN  IF history <= before THEN 0
      ELSE IF history - before < perPage THEN history - before ELSE perPage

\* the query before the dashboard has a repository id and url
IdleQuery(history) ==
  [view |-> "timeline", history |-> history, status |-> "idle", pages |-> <<>>,
   fetching |-> <<>>, handler |-> "none", requested |-> <<>>, upstreamLog |-> <<>>,
   intersecting |-> FALSE]

InitScroll ==
  /\ impl = "vercel"
  /\ repositories = <<>>
  /\ commits = NoCommits
  /\ handlers = [q \in Requests |-> IdleHandler]
  /\ runs = [q \in Requests |-> NoRun]
  /\ disk = {}
  /\ poller = PollerOff
  /\ cls = NoCls
  /\ page = NoPage
  /\ agg = NoAgg
  /\ gitlog = NoGitLog
  /\ \E history \in Histories : ui = IdleQuery(history)

\* the url of a page request: the page parameter as the client writes it
pageQuery(pageParam) == toString(pageParam)

\* useInfiniteQuery becomes enabled: the first page is requested with
\* initialPageParam
QueryMount ==
  /\ ui.view = "timeline"
  /\ ui.status = "idle"
  /\ ui' = [ui EXCEPT !.status = "pending", !.fetching = <<pageQuery(1)>>,
                      !.requested = Append(@, 1), !.handler = "sent"]
  /\ UNCHANGED <<ingestVars, cls, page, agg, gitlog>>

\* the handler receives the request, reads the page number and issues the
\* repository-metadata request
SessionStart ==
  /\ ui.view = "timeline"
  /\ ui.handler = "sent"
  /\ ui' = [ui EXCEPT !.handler = "awaitRepo",
                      !.upstreamLog = Append(@, [request |-> "repo",
                                                 page |-> parseInt(ui.fetching[1])])]
  /\ UNCHANGED <<ingestVars, cls, page, agg, gitlog>>

\* the metadata response is ok: the handler issues the commit-list request
SessionRepoOk ==
  /\ ui.view = "timeline"
  /\ ui.handler = "awaitRepo"
  /\ ui' = [ui EXCEPT !.handler = "awaitCommits",
                      !.upstreamLog = Append(@, [request |-> "commits",
                                                 page |-> parseInt(ui.fetching[1])])]
  /\ UNCHANGED <<ingestVars, cls, page, agg, gitlog>>

\* hasNextPage: getNextPageParam of the last page is defined
hasNextPage == ui.pages # <<>> /\ ui.pages[Len(ui.pages)].pagination.hasMore

\* mutant: the observer does not see a page in flight
isFetchingNextPage_never == FALSE

\* isFetchingNextPage: a page after the first is in flight
isFetchingNextPage == ui.pages # <<>> /\ ui.fetching # <<>>

\* the commit list arrives: the handler answers (the details it waits for
\* never fail the page) and queryFn returns the body, which the query appends
SessionCommitsOk ==
  /\ ui.view = "timeline"
  /\ ui.handler = "awaitCommits"
  /\ LET pageNumber == parseInt(ui.fetching[1])
         count == pageLength(ui.history, pageNumber)
         body == [count |-> count, pagination |-> paginationOf(count, pageNumber)]
     IN  ui' = [ui EXCEPT !.handler = "none", !.fetching = <<>>,
                          !.status = "success", !.pages = Append(@, body)]
  /\ UNCHANGED <<ingestVars, cls, page, agg, gitlog>>

\* the metadata or the commit-list request fails: the handler answers with an
\* error status, queryFn throws and the query is in its error state
SessionFails ==
  /\ ui.view = "timeline"
  /\ ui.handler \in {"awaitRepo", "awaitCommits"}
  /\ ui' = [ui EXCEPT !.handler = "none", !.fetching = <<>>, !.status = "error"]
  /\ UNCHANGED <<ingestVars, cls, page, agg, gitlog>>

\* the timeline with the scroll sentinel is rendered
sentinelRendered ==
  /\ ui.status = "success"
  /\ \E i \in 1..Len(ui.pages) : ui.pages[i].count > 0

\* the user scrolls: the sentinel enters or leaves the viewport
Scroll ==
  /\ ui.view = "timeline"
  /\ sentinelRendered
  /\ ui' = [ui EXCEPT !.intersecting = ~@]
  /\ UNCHANGED <<ingestVars, cls, page, agg, gitlog>>

\* the observer's callback: fetchNextPage() with getNextPageParam of the
\* last page
FetchNextPage ==
  /\ ui.view = "timeline"
  /\ sentinelRendered
  /\ ui.intersecting /\ hasNextPage /\ ~isFetchingNextPage
  /\ LET pageParam == ui.pages[Len(ui.pages)].pagination.page + 1
     IN  ui' = [ui EXCEPT !.fetching = <<pageQuery(pageParam)>>,
                          !.requested = Append(@, pageParam), !.handler = "sent"]
  /\ UNCHANGED <<ingestVars, cls, page, agg, gitlog>>

NextScroll ==
  \/ QueryMount
  \/ SessionStart
  \/ SessionRepoOk
  \/ SessionCommitsOk
  \/ SessionFails
  \/ Scroll
  \/ FetchNextPage

SpecScroll == InitScroll /\ [][NextScroll]_vars

\* the session under the scheduling of browser and server: an enabled query
\* starts, a request sent reaches the handler, every awaited upstream request
\* resolves or rejects, and the observer's callback runs whenever the
\* sentinel is in view with a next page to fetch; the user is free to
\* scroll or not
SpecScrollFair ==
  /\ SpecScroll
  /\ WF_vars(QueryMount)
  /\ WF_vars(SessionStart)
  /\ WF_vars(SessionRepoOk \/ SessionCommitsOk \/ SessionFails)
  /\ SF_vars(FetchNextPage)

\* ------------------------------------------------ local path: the log parser
Tab == "\t"
Newline == "\n"

\* text.split(sep) for a separator of one character
RECURSIVE split(_, _)
split(text, sep) ==
  IF \A i \in 1..Len(text) : text[i] # sep THEN <<text>>
  ELSE LET first == CHOOSE i \in 1..Len(text) :
                      text[i] = sep /\ \A j \in 1..(i - 1) : text[j] # sep
       IN  <<SubSeq(text, 1, first - 1)>> \o split(SubSeq(text, first + 1, Len(text)), sep)

isWhiteSpace(c) == c \in {" ", Tab, Newline}

\* text.trim()
RECURSIVE trimStart(_)
trimStart(text) ==
  IF text # <<>> /\ isWhiteSpace(text[1]) THEN trimStart(Tail(text)) ELSE text

RECURSIVE trimEnd(_)
trimEnd(text) ==
  IF text # <<>> /\ isWhiteSpace(text[Len(text)])
  THEN trimEnd(SubSeq(text, 1, Len(text) - 1)) ELSE text

trim(text) == trimEnd(trimStart(text))

isDigit(c) == \E d \in 1..10 : <<"0","1","2","3","4","5","6","7","8","9">>[d] = c

\* the longest prefix of decimal digits
RECURSIVE digitPrefix(_)
digitPrefix(text) ==
  IF text # <<>> /\ isDigit(text[1]) THEN <<text[1]>> \o digitPrefix(Tail(text)) ELSE <<>>

\* parseInt(text, 10): <<n>>, or <<>> for NaN
parseIntOrNaN(text) ==
  LET t == trimStart(text)
      negative == t # <<>> /\ t[1] = "-"
      unsigned == IF t # <<>> /\ t[1] \in {"-", "+"} THEN Tail(t) ELSE t
      digits == digitPrefix(unsigned)
  IN  IF digits = <<>> THEN <<>>
      ELSE IF negative THEN <<0 - parseInt(digits)>> ELSE <<parseInt(digits)>>

\* field === '-' ? 0 : parseInt(field, 10) || 0, as <<n>> (<<>> would be NaN)
countOf(field) ==
  IF field = <<"-">> THEN <<0>>
  ELSE LET parsed == parseIntOrNaN(field)
       IN  IF parsed = <<>> \/ parsed = <<0>> THEN <<0>> ELSE parsed

\* files.reduce((sum, f) => sum + f.<key>, 0): NaN once a term is NaN
RECURSIVE sumOf(_, _)
sumOf(files, key) ==
  IF files = <<>> THEN <<0>>
  ELSE LET rest == sumOf(SubSeq(files, 1, Len(files) - 1), key)
           term == IF key = "insertions" THEN files[Len(files)].insertions
                   ELSE files[Len(files)].deletions
       IN  IF rest = <<>> \/ term = <<>> THEN <<>> ELSE <<rest[1] + term[1]>>

\* the i-th element of a destructured array: <<>> for undefined
elementOf(parts, i) == IF i <= Len(parts) THEN <<parts[i]>> ELSE <<>>

\* currentCommit.hash is truthy
hasHash(currentCommit) == currentCommit.hash # <<>> /\ currentCommit.hash[1] # <<>>

NoCurrentCommit ==
  [hash |-> <<>>, message |-> <<>>, author |-> <<>>, authorEmail |-> <<>>, date |-> <<>>]

\* if (currentCommit.hash) commits.push({...currentCommit, files, ...})
pushCommit(parsing) ==
  IF hasHash(parsing.currentCommit)
  THEN Append(parsing.commits,
              [hash |-> parsing.currentCommit.hash,
               message |-> parsing.currentCommit.message,
               author |-> parsing.currentCommit.author,
               authorEmail |-> parsing.currentCommit.authorEmail,
               date |-> parsing.currentCommit.date,
               files |-> parsing.files,
               insertions |-> sumOf(parsing.files, "insertions"),
               deletions |-> sumOf(parsing.files, "deletions")])
  ELSE parsing.commits

\* the body of the loop over the lines
parseLine(parsing, line) ==
  IF includes(line, <<"|">>)
  THEN LET parts == split(line, "|")
       IN  [commits |-> pushCommit(parsing),
            currentCommit |-> [hash |-> elementOf(parts, 1),
                               message |-> elementOf(parts, 2),
                               author |-> elementOf(parts, 3),
                               authorEmail |-> elementOf(parts, 4),
                               date |-> elementOf(parts, 5)],
            files |-> <<>>]
  ELSE IF trim(line) # <<>>
  THEN LET parts == split(trim(line), Tab)
       IN  IF Len(parts) = 3
           THEN [parsing EXCEPT !.files =
                   Append(@, [filename |-> parts[3],
                              insertions |-> countOf(parts[1]),
                              deletions |-> countOf(parts[2])])]
           ELSE parsing
  ELSE parsing

RECURSIVE parseLines(_)
parseLines(lines) ==
  IF lines = <<>>
  THEN [commits |-> <<>>, currentCommit |-> NoCurrentCommit, files |-> <<>>]
  ELSE parseLine(parseLines(SubSeq(lines, 1, Len(lines) - 1)), lines[Len(lines)])

\* the commits parsed from the output of git log
parseGitLog(stdout) == pushCommit(parseLines(split(stdout, Newline)))

\* ------------------------------------------------ the parser specification
\* what git log --pretty=format:'%H|%s|%an|%ae|%ai' --numstat writes: per
\* commit a header line and one line per changed file, binary files with "-"
\* for their counts; a log is given by its lines in order, "commit" standing
\* for a header line
MaxLines == 5

CommitLine == [kind |-> "commit", insertions |-> <<>>, deletions |-> <<>>, filename |-> <<>>]

FileLines ==
  { [kind |-> "file", insertions |-> <<"1","2">>, deletions |-> <<"0">>, filename |-> <<"s","r","c","/","a",".","t","s">>],
    [kind |-> "file", insertions |-> <<"-">>, deletions |-> <<"-">>, filename |-> <<"l","o","g","o",".","p","n","g">>],
    [kind |-> "file", insertions |-> <<"-">>, deletions |-> <<"5">>, filename |-> <<"b","i","n","a","r","y",".","p","n","g">>],
    [kind |-> "file", insertions |-> <<"3">>, deletions |-> <<"-">>, filename |-> <<"b",".","b","i","n">>],
    [kind |-> "file", insertions |-> <<"1">>, deletions |-> <<"1">>, filename |-> <<"a","|","b",".","t","x","t">>] }

\* a log is empty or starts with the header of its first commit
GitLogs ==
  {log \in SeqsUpTo({CommitLine} \cup FileLines, MaxLines) :
     log = <<>> \/ log[1] = CommitLine}

\* %H of the commit whose header is the i-th line of the log
hashOfLine(i) == <<"c">> \o toString(i)

\* the text of a line; a blank line separates the commits
lineText(log, i) ==
  IF log[i].kind = "commit"
  THEN (IF i = 1 THEN <<>> ELSE <<Newline>>)
       \o hashOfLine(i) \o <<"|","F","i","x"," ","i","t","|","A","l","|","a","@","x",".","i","o","|","2","0","2","4","-","0","1","-","0","2">>
  ELSE log[i].insertions \o <<Tab>> \o log[i].deletions \o <<Tab>> \o log[i].filename

gitLogOutput(log) == join([i \in 1..Len(log) |-> lineText(log, i)], <<Newline>>)

InitParse ==
  /\ impl = "express"
  /\ repositories = <<>>
  /\ commits = NoCommits
  /\ handlers = [q \in Requests |-> IdleHandler]
  /\ runs = [q \in Requests |-> NoRun]
  /\ disk = {}
  /\ poller = PollerOff
  /\ cls = NoCls
  /\ page = NoPage
  /\ agg = NoAgg
  /\ ui = NoUi
  /\ \E log \in GitLogs : gitlog = [phase |-> "input", log |-> log, result |-> <<>>]

\* the run parses the output of git log
ParseLog ==
  /\ gitlog.phase = "input"
  /\ gitlog' = [gitlog EXCEPT !.phase = "done",
                              !.result = parseGitLog(gitLogOutput(gitlog.log))]
  /\ UNCHANGED <<ingestVars, cls, page, agg, ui>>

NextParse == ParseLog

SpecParse == InitParse /\ [][NextParse]_vars

\* ----------------------------------- the analyze trigger: URL validation
\* url.startsWith(prefix)
startsWith(text, prefix) ==
  Len(text) >= Len(prefix) /\ SubSeq(text, 1, Len(prefix)) = prefix

noSlash(text) == \A i \in 1..Len(text) : text[i] # "/"

\* text matches ^https:\/\/github\.com\/([^\/]+)\/([^\/]+) followed by one of
\* the endings, then $
matchesRepositoryUrl(text, endings) ==
  LET prefix == <<"h","t","t","p","s",":","/","/","g","i","t","h","u","b",".","c","o","m","/">>
      rest == SubSeq(text, Len(prefix) + 1, Len(text))
  IN  /\ startsWith(text, prefix)
      /\ \E i \in 2..Len(rest) : \E j \in (i + 1)..Len(rest) :
           /\ rest[i] = "/"
           /\ noSlash(SubSeq(rest, 1, i - 1))
           /\ noSlash(SubSeq(rest, i + 1, j))
           /\ SubSeq(rest, j + 1, Len(rest)) \in endings

\* /^https:\/\/github\.com\/[^\/]+\/[^\/]+\/?$/ of analyzeRepositorySchema
matchesSchemaRegex(text) == matchesRepositoryUrl(text, {<<>>, <<"/">>})

\* /^https:\/\/github\.com\/([^\/]+)\/([^\/]+)\/?(?:\.git)?$/ of the handlers
matchesHandlerRegex(text) ==
  matchesRepositoryUrl(text, {<<>>, <<"/">>, <<".","g","i","t">>, <<"/",".","g","i","t">>})

\* z.string().url(): the text parses as a URL, which takes a scheme
isUrl(text) ==
  \E i \in 2..Len(text) :
    /\ text[i] = ":"
    /\ \A j \in 1..(i - 1) : toLowerCaseChar(text[j]) \in {LowerCase[k] : k \in 1..Len(LowerCase)}

\* mutant: the pattern is not tested
refusal_prefixOnly(variant, url) ==
  IF url = <<>>
  THEN <<[status |-> 400, message |-> "URL is required"]>>
  ELSE IF ~startsWith(url, <<"h","t","t","p","s",":","/","/","g","i","t","h","u","b",".","c","o","m","/">>)
  THEN <<[status |-> 400, message |-> "Only GitHub repositories are supported"]>>
  ELSE <<>>

\* the answer of the handler to a body whose url it refuses, <<>> when it
\* accepts the url; a body without url is the empty text
refusal(variant, url) ==
  IF variant = "express"
  THEN IF url = <<>> \/ ~isUrl(url) \/ ~matchesSchemaRegex(url)
       THEN <<[status |-> 400, message |-> "Invalid request data"]>>
       ELSE IF ~startsWith(url, <<"h","t","t","p","s",":","/","/","g","i","t","h","u","b",".","c","o","m","/">>)
       THEN <<[status |-> 400, message |-> "Only GitHub repositories are supported"]>>
       ELSE IF ~matchesHandlerRegex(url)
       THEN <<[status |-> 400, message |-> "Invalid GitHub URL format"]>>
       ELSE <<>>
  ELSE IF url = <<>>
       THEN <<[status |-> 400, message |-> "URL is required"]>>
       ELSE IF ~startsWith(url, <<"h","t","t","p","s",":","/","/","g","i","t","h","u","b",".","c","o","m","/">>)
       THEN <<[status |-> 400, message |-> "Only GitHub repositories are supported"]>>
       ELSE IF ~matchesHandlerRegex(url)
       THEN <<[status |-> 400, message |-> "Invalid GitHub URL format"]>>
       ELSE <<>>

\* the urls of the requests
RequestUrls ==
  { <<>>, <<"g","i","t","h","u","b",".","c","o","m","/","o","/","r">>, <<"h","t","t","p",":","/","/","g","i","t","h","u","b",".","c","o","m","/","o","/","r">>, <<"h","t","t","p","s",":","/","/","g","i","t","l","a","b",".","c","o","m","/","o","/","r">>,
    <<"h","t","t","p","s",":","/","/","g","i","t","h","u","b",".","c","o","m","/","o">>, <<"h","t","t","p","s",":","/","/","g","i","t","h","u","b",".","c","o","m","/","o","/","r","/","t","r","e","e","/","m","a","i","n">>,
    <<"h","t","t","p","s",":","/","/","g","i","t","h","u","b",".","c","o","m","/","o","/","r">>, <<"h","t","t","p","s",":","/","/","g","i","t","h","u","b",".","c","o","m","/","o","/","r","/">>,
    <<"h","t","t","p","s",":","/","/","g","i","t","h","u","b",".","c","o","m","/","o","/","r",".","g","i","t">>, <<"h","t","t","p","s",":","/","/","g","i","t","h","u","b",".","c","o","m","/","o","/","r","/",".","g","i","t">> }

\* no request has arrived; the url of a request is a text here
InitValidate ==
  /\ impl \in {"express", "vercel"}
  /\ repositories = <<>>
  /\ commits = NoCommits
  /\ handlers = [q \in Requests |-> [IdleHandler EXCEPT !.url = <<>>]]
  /\ runs = [q \in Requests |-> NoRun]
  /\ disk = {}
  /\ poller = PollerOff
  /\ ui = NoUi
  /\ gitlog = NoGitLog
  /\ cls = NoCls
  /\ page = NoPage
  /\ agg = NoAgg

\* the handler returns its 400 before it reads the store
AnalyzeRefuse(q, url) ==
  /\ handlers[q].pc = "idle"
  /\ \A p \in 1..(q - 1) : handlers[p].pc # "idle"
  /\ refusal(impl, url) # <<>>
  /\ handlers' = [handlers EXCEPT ![q] =
                    [@ EXCEPT !.pc = "refused", !.url = url,
                              !.response = refusal(impl, url)]]
  /\ UNCHANGED <<impl, repositories, commits, runs, disk, poller, cls, page, agg, ui, gitlog>>

\* the handler accepts the url and goes on to the lookup
AnalyzeAccept(q, url) ==
  /\ refusal(impl, url) = <<>>
  /\ AnalyzeRequest(q, url) \/ VercelAnalyze(q, url)

NextValidate ==
  \/ \E q \in Requests, url \in RequestUrls : AnalyzeRefuse(q, url)
  \/ \E q \in Requests, url \in RequestUrls : AnalyzeAccept(q, url)
  \/ \E q \in Requests : AnalyzeCreate(q)
  \/ \E q \in Requests : AnalyzeStart(q)

SpecValidate == InitValidate /\ [][NextValidate]_vars

\* ------------------------------------- the dashboard's selected commit
\* the commits a timeline shows once its query has data: distinct ids, dates
\* that may coincide
MaxLoaded == 3
LoadedDates == {1, 2}
LoadedLists ==
  UNION {{[i \in 1..n |-> [id |-> i, date |-> dates[i]]] : dates \in [1..n -> LoadedDates]}
         : n \in 0..MaxLoaded}

\* clicks of one session
MaxClicks == 3

\* the dashboard with a repository and its timeline component mounted:
\* selectedEvent is null and the query has no data yet
MountedTimeline(view) ==
  [view |-> view, loaded |-> FALSE, commits |-> <<>>, selectedEvent |-> <<>>,
   effects |-> FALSE, clicks |-> 0, clicked |-> <<>>]

InitSelect ==
  /\ impl = "vercel"
  /\ repositories = <<>>
  /\ commits = NoCommits
  /\ handlers = [q \in Requests |-> IdleHandler]
  /\ runs = [q \in Requests |-> NoRun]
  /\ disk = {}
  /\ poller = PollerOff
  /\ cls = NoCls
  /\ page = NoPage
  /\ agg = NoAgg
  /\ gitlog = NoGitLog
  /\ \E view \in {"vertical", "multi-lane"} : ui = MountedTimeline(view)

\* commits.reduce((latest, commit) =>
\*   new Date(commit.date) > new Date(latest.date) ? commit : latest)
RECURSIVE mostRecent(_)
mostRecent(list) ==
  IF Len(list) = 1 THEN list[1]
  ELSE LET latest == mostRecent(SubSeq(list, 1, Len(list) - 1))
           commit == list[Len(list)]
       IN  IF commit.date > latest.date THEN commit ELSE latest

\* onTimelineElementClick of an element of the vertical timeline: what it passes to
\* onEventSelect
onTimelineElementClick(selectedEvent, commit) ==
  IF selectedEvent # <<>> /\ selectedEvent[1].id = commit.id THEN <<>> ELSE <<commit>>

\* handleEventClick of the multi-lane timeline
handleEventClick(commit) == <<commit>>

\* the query of the mounted timeline has data: the component renders it and
\* its effects run after the render
CommitsLoaded ==
  /\ ui.view \in {"vertical", "multi-lane"}
  /\ ~ui.loaded
  /\ \E list \in LoadedLists :
       ui' = [ui EXCEPT !.loaded = TRUE, !.commits = list, !.effects = TRUE]
  /\ UNCHANGED <<ingestVars, cls, page, agg, gitlog>>

\* the effects of the last render run: the multi-lane timeline selects the
\* most recent commit when none is selected; the vertical timeline has no
\* selecting effect
RunEffects ==
  /\ ui.view \in {"vertical", "multi-lane"}
  /\ ui.effects
  /\ ui' = IF ui.view = "multi-lane" /\ ui.selectedEvent = <<>> /\ Len(ui.commits) > 0
           THEN [ui EXCEPT !.selectedEvent = <<mostRecent(ui.commits)>>]
           ELSE [ui EXCEPT !.effects = FALSE]
  /\ UNCHANGED <<ingestVars, cls, page, agg, gitlog>>

\* the user clicks the i-th rendered commit: the component calls
\* onEventSelect, the dashboard sets selectedEvent and renders again
ClickCommit(i) ==
  /\ ui.view \in {"vertical", "multi-lane"}
  /\ ui.loaded
  /\ i \in 1..Len(ui.commits)
  /\ ui.clicks < MaxClicks
  /\ LET commit == ui.commits[i]
         event == IF ui.view = "vertical" THEN onTimelineElementClick(ui.selectedEvent, commit)
                  ELSE handleEventClick(commit)
     IN  ui' = [ui EXCEPT !.selectedEvent = event, !.effects = TRUE,
                          !.clicks = @ + 1, !.clicked = <<commit.id>>]
  /\ UNCHANGED <<ingestVars, cls, page, agg, gitlog>>

\* the details sheet of the vertical timeline's dashboard is closed
\* (onOpenChange(false)): setSelectedEvent(null)
CloseSheet ==
  /\ ui.view = "vertical"
  /\ ui.selectedEvent # <<>>
  /\ ui' = [ui EXCEPT !.selectedEvent = <<>>, !.effects = TRUE, !.clicked = <<>>]
  /\ UNCHANGED <<ingestVars, cls, page, agg, gitlog>>

NextSelect ==
  \/ CommitsLoaded
  \/ RunEffects
  \/ \E i \in 1..MaxLoaded : ClickCommit(i)
  \/ CloseSheet

SpecSelect == InitSelect /\ [][NextSelect]_vars

\* ================================================================= claims
statusChanges(allowed) ==
  \A i \in 1..Len(repositories) :
    LET old == repositories[i].status
        new == repositories'[i].status
    IN  old # new => <<old, new>> \in allowed

\* C1 (as stated): every status change is pending->processing,
\* processing->completed or processing->error, so completed and error are
\* never left again.
C1_StatusIsTerminal ==
  [][statusChanges({<<"pending", "processing">>, <<"processing", "completed">>,
                    <<"processing", "error">>})]_vars

\* C1 (amended): every status change is pending->processing,
\* processing->completed, processing->error, or, caused by a further or an
\* overlapping run for the same record, completed->processing,
\* error->processing, completed->error or error->completed; the status never
\* returns to pending and never leaves pending except to processing.
C1_StatusChanges ==
  [][statusChanges({<<"pending", "processing">>, <<"processing", "completed">>,
                    <<"processing", "error">>, <<"completed", "processing">>,
                    <<"error", "processing">>, <<"completed", "error">>,
                    <<"error", "completed">>})]_vars

\* a record is back at processing although one of its runs has written completed
C1_Witness ==
  \E i \in 1..Len(repositories), q \in Requests :
    /\ repositories[i].status = "processing"
    /\ runs[q].repoId = repositories[i].id
    /\ runs[q].wrote = "completed"

\* the stored commits of a repository, and what one run stores for a log
storedFor(id) == [c \in commitsOf(id) |-> commits[c]]
runOutput(id, parsed) == pushAll(NoCommits, id, parsed)

\* C2: whenever a repository's status is completed, its stored commits are
\* the complete classified output of one ingestion run.
C2_CompletedIsWhole ==
  \A i \in 1..Len(repositories) :
    repositories[i].status = "completed" =>
      \E n \in 1..MaxHash :
        storedFor(repositories[i].id) = runOutput(repositories[i].id, GitLog(n))

\* C3: the store never holds two repository records with the same URL.
C3_OneRecordPerUrl ==
  \A i, j \in 1..Len(repositories) :
    repositories[i].url = repositories[j].url => i = j

\* C4: once every run started for a repository has ended and its status is
\* completed, the stored commits are exactly the commits of one run: no hash
\* twice, none left over.
C4_ReingestionReplaces ==
  \A i \in 1..Len(repositories) :
    ( /\ repositories[i].status = "completed"
      /\ \A q \in Requests : runs[q].repoId = repositories[i].id => runs[q].pc = "done" )
    => /\ \A c \in commitsOf(repositories[i].id) : commits[c] = 1
       /\ \E n \in 1..MaxHash :
            {c.hash : c \in commitsOf(repositories[i].id)} = {GitLog(n)[k] : k \in 1..n}

\* C5: a run has written completed only after it has deleted the old commits
\* and stored every commit it parsed, and it stores no commit afterwards.
C5_CompletedAfterStore ==
  /\ [](\A q \in Requests :
          runs[q].wrote = "completed" =>
            /\ runs[q].deleted
            /\ runs[q].created = Len(runs[q].parsed))
  /\ [][\A q \in Requests :
          runs[q].wrote = "completed" => runs'[q].created <= runs[q].created]_vars

\* a run has written completed after storing a log of two commits
C5_Witness ==
  \E q \in Requests :
    /\ runs[q].wrote = "completed"
    /\ Len(runs[q].parsed) = 2
    /\ runs[q].created = 2

\* C6: the descriptor returned for a URL that had no record carries status
\* pending.
C6_ResponsePending ==
  \A q \in Requests :
    (impl # "direct" /\ handlers[q].response # <<>> /\ handlers[q].response[1].id = q)
      => handlers[q].response[1].status = "pending"

\* C7: a run of the analyze trigger whose clone or log extraction failed or
\* timed out has written error and has neither deleted nor created a commit;
\* the failing step itself sets the status to error and leaves the commit
\* store as it was.
C7_FailureStoresNothing ==
  /\ [](\A q \in Requests :
          (impl # "direct" /\ runs[q].failure \in {"clone", "log"}) =>
            /\ runs[q].wrote = "error"
            /\ ~runs[q].deleted
            /\ runs[q].created = 0)
  /\ [][\A q \in Requests :
          (impl # "direct" /\ runs[q].failure = "none"
             /\ runs'[q].failure \in {"clone", "log"}) =>
            /\ commits' = commits
            /\ getRepository(runs[q].repoId)[1].status' = "error"]_vars

\* a run failed at the clone or the log while commits of an earlier run of
\* the same repository are stored
C7_Witness ==
  \E q \in Requests :
    /\ impl # "direct"
    /\ runs[q].failure \in {"clone", "log"}
    /\ commitsOf(runs[q].repoId) # {}

C9_PollerStopsOnCompleted ==
  poller.pc = "settled" => poller.seenStatus = "completed"

\* the triggers of the decision order, on the classifier's current input
msgHas(k) == includes(toLowerCase(cls.message), k)
initialTrigger == msgHas(<<"i","n","i","t","i","a","l"," ","c","o","m","m","i","t">>) \/ msgHas(<<"f","i","r","s","t"," ","c","o","m","m","i","t">>)
architectureTrigger ==
  \/ hasArchFiles(cls.files)
  \/ msgHas(<<"m","i","g","r","a","t","e">>) \/ msgHas(<<"a","r","c","h","i","t","e","c","t","u","r","e">>) \/ msgHas(<<"i","n","f","r","a","s","t","r","u","c","t","u","r","e">>)
  \/ msgHas(<<"d","o","c","k","e","r">>) \/ msgHas(<<"d","e","p","l","o","y">>)
  \/ Len(cls.files) > 15
featureTrigger ==
  \/ msgHas(<<"f","e","a","t">>) \/ msgHas(<<"f","e","a","t","u","r","e">>) \/ msgHas(<<"a","d","d">>)
  \/ msgHas(<<"i","m","p","l","e","m","e","n","t">>) \/ msgHas(<<"l","a","u","n","c","h">>) \/ msgHas(<<"r","e","l","e","a","s","e">>)
  \/ msgHas(<<"n","e","w">>)
  \/ Len(cls.files) > 8
localDone == cls.phase \in {"local", "both"}
remoteDone == cls.phase \in {"remote", "both"}

\* C10 (as stated): a message containing "fix", with no architecture and no
\* initial-commit trigger, is classified bug-fix (local) and bugfix (remote),
\* whatever else it contains.
C10_FixIsBugfix ==
  (msgHas(<<"f","i","x">>) /\ ~architectureTrigger /\ ~initialTrigger) =>
    /\ localDone => cls.local = "bug-fix"
    /\ remoteDone => cls.remote.type = "bugfix"

\* C10 (amended): a message containing "fix", with no architecture, no
\* initial-commit and no feature trigger, is classified bug-fix (local) and
\* bugfix (remote), whatever else it contains.
C10_FixWithoutFeatureIsBugfix ==
  (msgHas(<<"f","i","x">>) /\ ~architectureTrigger /\ ~initialTrigger /\ ~featureTrigger) =>
    /\ localDone => cls.local = "bug-fix"
    /\ remoteDone => cls.remote.type = "bugfix"

\* a message with "fix" and a refactor keyword, classified on both paths
C10_Witness ==
  /\ cls.phase = "both"
  /\ msgHas(<<"f","i","x">>) /\ msgHas(<<"u","p","d","a","t","e">>)
  /\ ~architectureTrigger /\ ~initialTrigger /\ ~featureTrigger
  /\ cls.local = "bug-fix"
  /\ cls.remote.type = "bugfix"

\* ------------------------------------------------------ claims C11 - C13
clientDone == cls.client # ""
dockerFile == \E i \in 1..Len(cls.files) : includes(cls.files[i], <<"d","o","c","k","e","r">>)

\* C11 (as stated): when a changed path contains "docker", the classifier
\* returns architecture, except that a message with "initial commit" or
\* "first commit" gives initial; on every classifier the repository has.
C11_DockerIsArchitecture ==
  dockerFile =>
    LET expected == IF initialTrigger THEN "initial" ELSE "architecture"
    IN  /\ localDone => cls.local = expected
        /\ clientDone => cls.client = expected
        /\ remoteDone => cls.remote.type = expected

\* C12 (as stated): on the remote path the importance follows from the
\* category: initial and feature high; bugfix, config and test medium; docs,
\* refactor and the fallback low.
C12_ImportanceByCategory ==
  remoteDone =>
    LET r == cls.remote
        fallback == r.category = "Code Change"
    IN  /\ (r.type = "initial" \/ (r.type = "feature" /\ ~fallback)) => r.importance = "high"
        /\ r.type \in {"bugfix", "config", "test"} => r.importance = "medium"
        /\ (r.type \in {"docs", "refactor"} \/ fallback) => r.importance = "low"

\* the rules of the remote classifier, on the classifier's current input
lowerFileNames ==
  join([i \in 1..Len(cls.files) |-> toLowerCase(cls.files[i])], <<" ">>)
fileHas(k) == includes(lowerFileNames, k)
remoteRuleMatched ==
  \/ initialTrigger
  \/ msgHas(<<"f","e","a","t">>) \/ msgHas(<<"f","e","a","t","u","r","e">>) \/ msgHas(<<"a","d","d">>)
  \/ msgHas(<<"f","i","x">>) \/ msgHas(<<"b","u","g">>) \/ msgHas(<<"p","a","t","c","h">>)
  \/ msgHas(<<"d","o","c">>) \/ msgHas(<<"r","e","a","d","m","e">>) \/ fileHas(<<"r","e","a","d","m","e">>) \/ fileHas(<<".","m","d">>)
  \/ msgHas(<<"c","o","n","f","i","g">>) \/ fileHas(<<"p","a","c","k","a","g","e",".","j","s","o","n">>) \/ fileHas(<<"c","o","n","f","i","g">>)
  \/ msgHas(<<"t","e","s","t">>) \/ fileHas(<<"t","e","s","t">>) \/ fileHas(<<"s","p","e","c">>)
  \/ msgHas(<<"r","e","f","a","c","t","o","r">>) \/ msgHas(<<"c","l","e","a","n","u","p">>) \/ msgHas(<<"i","m","p","r","o","v","e">>)

\* C13: the remote classifier returns at least one tag and no tag twice, and
\* the tag general exactly when no keyword rule and no file rule matched.
C13_TagsNonEmptyDistinct ==
  remoteDone =>
    LET tags == cls.remote.tags
    IN  /\ Len(tags) > 0
        /\ \A i, j \in 1..Len(tags) : tags[i] = tags[j] => i = j
        /\ (\E i \in 1..Len(tags) : tags[i] = "general") <=> ~remoteRuleMatched

\* a feature commit touching an api file, an endpoint file and a ui file
C13_Witness ==
  /\ remoteDone
  /\ fileHas(<<"a","p","i">>) /\ fileHas(<<"e","n","d","p","o","i","n","t">>) /\ fileHas(<<"u","i">>)
  /\ cls.remote.tags = <<"feature", "api", "ui">>

\* ------------------------------------------------------ claims C14 - C18
pageEnded == page.pc \in {"done", "responded"}
pageResponded == page.pc = "responded"
zeroStats == [additions |-> 0, deletions |-> 0, total |-> 0]
ownDetail(sha) == detailOf(sha, kindOfSha(sha))

\* C14: the response's pagination.hasMore is true exactly when the returned
\* page holds 30 commits; a shorter page, the empty one included, has
\* hasMore false.
C14_HasMoreIffFull ==
  pageResponded =>
    /\ page.response.pagination.hasMore <=> Len(page.response.commits) = 30
    /\ Len(page.response.commits) < 30 => ~page.response.pagination.hasMore

\* a full page has been served with hasMore set
C14_Witness ==
  /\ pageResponded
  /\ Len(page.upstream) = 30
  /\ Len(page.response.commits) = 30
  /\ page.response.pagination.hasMore

\* C15: when a detail fetch of the batch has failed (non-2xx or thrown),
\* the request still succeeds, the page holds every commit of the upstream
\* page, the failed commits have stats {0,0,0} and no files, and every other
\* commit of the batch has the stats and files of its own detail response.
C15_DetailFailureIsolated ==
  (pageEnded /\ page.failedDetails # {}) =>
    /\ page.response.status = 200
    /\ Len(page.response.commits) = Len(page.upstream)
    /\ \A i \in 1..Len(page.upstream) :
         page.response.commits[i].id = page.upstream[i].sha
    /\ \A i \in 1..Len(page.details) :
         LET commit == page.response.commits[i]
         IN  IF commit.id \in page.failedDetails
             THEN commit.stats = zeroStats /\ commit.files = <<>>
             ELSE /\ commit.stats = ownDetail(commit.id).stats
                  /\ commit.files = ownDetail(commit.id).files

\* a batch of ten with one failed fetch and nine hydrated commits
C15_Witness ==
  /\ pageResponded
  /\ Len(page.details) = 10
  /\ Cardinality(page.failedDetails) = 1
  /\ \E i \in 1..10 :
       /\ page.response.commits[i].stats = zeroStats
       /\ \A j \in (1..10) \ {i} : page.response.commits[j].stats # zeroStats

\* C16: whatever the order in which the detail fetches completed or failed,
\* the commits of the page are in the order of the upstream page and each
\* carries either no detail or the detail of its own hash.
C16_OwnDetailInOrder ==
  pageResponded =>
    /\ Len(page.response.commits) = Len(page.upstream)
    /\ \A i \in 1..Len(page.upstream) :
         LET commit == page.response.commits[i]
         IN  /\ commit.id = page.upstream[i].sha
             /\ \/ commit.stats = zeroStats /\ commit.files = <<>>
                \/ /\ commit.stats = ownDetail(commit.id).stats
                   /\ commit.files = ownDetail(commit.id).files

\* hydrated and failed commits alternate in the served page
C16_Witness ==
  /\ pageResponded
  /\ page.pageNumber = 2
  /\ Len(page.details) = 10
  /\ \A i \in 1..10 :
       IF i % 2 = 1
       THEN page.response.commits[i].stats = ownDetail(page.upstream[i].sha).stats
       ELSE page.response.commits[i].stats = zeroStats

\* C17: at most 10 detail requests are issued, all for commits among the
\* first 10 of the upstream page; a commit at position 11 or later is
\* returned with no files and stats {0,0,0}.
C17_HydrationBounded ==
  /\ Cardinality(page.issued) <= 10
  /\ page.issued \subseteq
       {page.upstream[i].sha : i \in (1..10) \cap (1..Len(page.upstream))}
  /\ pageResponded =>
       \A i \in 11..Len(page.response.commits) :
         /\ page.response.commits[i].files = <<>>
         /\ page.response.commits[i].stats = zeroStats

\* a full page served with its first ten commits hydrated
C17_Witness ==
  /\ pageResponded
  /\ Len(page.response.commits) = 30
  /\ Cardinality(page.issued) = 10
  /\ page.failedDetails = {}
  /\ page.response.commits[10].stats # zeroStats
  /\ page.response.commits[11].stats = zeroStats

\* C18 (as stated): a non-2xx metadata or commit-list response that is
\* neither a 403 about a fine-grained token nor a 403 about a rate limit is
\* answered as a generic failure that carries the upstream status, never as
\* rate_limit_exceeded or token_type_restricted.
C18_GenericUpstreamFailure ==
  (page.pc = "done" /\ page.failed # <<>>) =>
    LET upstreamError == page.failed[1]
        tokenCase == /\ upstreamError.status = 403
                     /\ messageIncludes(upstreamError, <<"f","i","n","e","-","g","r","a","i","n","e","d">>)
        rateCase == /\ upstreamError.status = 403
                    /\ messageIncludes(upstreamError, <<"r","a","t","e"," ","l","i","m","i","t">>)
    IN  (~tokenCase /\ ~rateCase) =>
          /\ page.response.error \notin {<<"r","a","t","e","_","l","i","m","i","t","_","e","x","c","e","e","d","e","d">>, <<"t","o","k","e","n","_","t","y","p","e","_","r","e","s","t","r","i","c","t","e","d">>}
          /\ includes(page.response.error, toString(upstreamError.status))

\* ------------------------------------------------------ claims C19 - C20
aggregated == agg.phase = "done"
dates == {agg.commits[i].date : i \in 1..Len(agg.commits)}
handleOf(commit) == IF commit.login # "" THEN commit.login ELSE commit.name
handles == {handleOf(agg.commits[i]) : i \in 1..Len(agg.commits)}
commitsBy(handle) ==
  Cardinality({i \in 1..Len(agg.commits) : handleOf(agg.commits[i]) = handle})
tagsBy(handle) ==
  UNION { LET tags == analysisOf(agg.commits[i].message, agg.commits[i].files[1]).tags
          IN  {tags[j] : j \in 1..Len(tags)}
          : i \in {n \in 1..Len(agg.commits) : handleOf(agg.commits[n]) = handle} }

\* C19 (as stated): whatever the order of the commits of a page,
\* insights.timeline.firstCommit is the least commit timestamp of the page
\* and lastCommit the greatest.
C19_TimelineBounds ==
  (aggregated /\ agg.commits # <<>> /\ agg.result.status = 200) =>
    LET timeline == agg.result.insights.timeline
    IN  /\ timeline.firstCommit = <<CHOOSE d \in dates : \A e \in dates : d <= e>>
        /\ timeline.lastCommit = <<CHOOSE d \in dates : \A e \in dates : d >= e>>

\* the expert contacts of a served page: the stated shape
expertContactsOk ==
  LET experts == agg.result.onboarding.expertContacts
      listed == {experts[i].username : i \in 1..Len(experts)}
      least == IF Cardinality(handles) < 3 THEN Cardinality(handles) ELSE 3
  IN  /\ Len(experts) = least
      /\ Cardinality(listed) = Len(experts)
      /\ listed \subseteq handles
      /\ \A i \in 1..Len(experts) : experts[i].commits = commitsBy(experts[i].username)
      /\ \A i \in 1..(Len(experts) - 1) : experts[i].commits >= experts[i + 1].commits
      /\ \A h \in handles \ listed : \A i \in 1..Len(experts) :
           commitsBy(h) <= experts[i].commits
      /\ \A i \in 1..Len(experts) :
           /\ Len(experts[i].expertise) <= 3
           /\ \A j \in 1..Len(experts[i].expertise) :
                experts[i].expertise[j] \in tagsBy(experts[i].username)

\* C20 (as stated): for every commit set, onboarding.expertContacts holds
\* min(3, number of distinct contributors) entries in non-increasing order of
\* commit count, no contributor outside the list has more commits than one
\* inside it, and each entry has at most 3 tags, all of its own commits.
C20_ExpertContacts ==
  aggregated => (agg.result.status = 200 /\ expertContactsOk)

\* the same for commit sets whose contributor handles name no member of
\* Object.prototype
C20_ExpertContactsOrdinaryHandles ==
  (aggregated /\ handles \cap ObjectPrototypeNames = {}) =>
    (agg.result.status = 200 /\ expertContactsOk)

\* ------------------------------------------------------------ claim C21
\* the types of the served commits, and the number of commits of a type
types == {agg.result.commits[i].type : i \in 1..Len(agg.result.commits)}
commitsOfType(t) ==
  Cardinality({i \in 1..Len(agg.result.commits) : agg.result.commits[i].type = t})

\* p is the integer nearest to 100 * count / total, halves upwards
isRounded(p, count, total) ==
  /\ 2 * p * total - total <= 200 * count
  /\ 200 * count < 2 * p * total + total

\* C21: for every commit set, the empty one included, the onboarding.focusAreas
\* of the served body lists at most 5 categories in non-increasing order of
\* count, each with percentage = round(100 * count / totalCommits); for the
\* empty set totalCommits is 0 and focusAreas is empty (nothing is divided).
C21_FocusAreas ==
  /\ (aggregated /\ agg.commits = <<>>) =>
       /\ agg.result.status = 200
       /\ agg.result.insights.timeline.totalCommits = 0
       /\ agg.result.onboarding.focusAreas = <<>>
  /\ (aggregated /\ agg.result.status = 200) =>
       LET focus == agg.result.onboarding.focusAreas
           total == agg.result.insights.timeline.totalCommits
           listed == {focus[i].type : i \in 1..Len(focus)}
       IN  /\ total = Len(agg.commits)
           /\ Len(agg.result.commits) = total
           /\ Len(focus) <= 5
           /\ Len(focus) = IF Cardinality(types) < 5 THEN Cardinality(types) ELSE 5
           /\ Cardinality(listed) = Len(focus)
           /\ \A i \in 1..Len(focus) :
                /\ focus[i].type \in types
                /\ focus[i].count = commitsOfType(focus[i].type)
                /\ isRounded(focus[i].percentage, focus[i].count, total)
           /\ \A i \in 1..(Len(focus) - 1) : focus[i].count >= focus[i + 1].count
           /\ \A t \in types \ listed : \A i \in 1..Len(focus) :
                commitsOfType(t) <= focus[i].count

\* a served commit set of six types: five are listed, and a percentage was
\* rounded upwards
C21_Witness ==
  /\ aggregated
  /\ agg.result.status = 200
  /\ Cardinality(types) = 6
  /\ Len(agg.result.onboarding.focusAreas) = 5
  /\ \E i \in 1..5 :
       LET area == agg.result.onboarding.focusAreas[i]
       IN  area.percentage * Len(agg.commits) > 100 * area.count

\* the empty commit set is served with no focus area
C21_WitnessEmpty ==
  /\ aggregated
  /\ agg.commits = <<>>
  /\ agg.result.status = 200
  /\ agg.result.onboarding.focusAreas = <<>>

\* ------------------------------------------------------------ claim C22
\* the upstream requests of a kind the session's handler has issued
upstreamRequests(kind) ==
  {i \in 1..Len(ui.upstreamLog) : ui.upstreamLog[i].request = kind}

\* C22 (as stated): during one paginated session over a repository (page 1
\* followed by continuation pages 2, 3, ...), the repository-metadata
\* request is issued once, for the initial page, and not again for
\* continuation pages.
C22_MetadataOnce ==
  /\ Cardinality(upstreamRequests("repo")) <= 1
  /\ \A i \in upstreamRequests("repo") : ui.upstreamLog[i].page = 1

\* ------------------------------------------------------ claims C23 - C24
parsed == gitlog.phase = "done"
headerLines == {i \in 1..Len(gitlog.log) : gitlog.log[i].kind = "commit"}
numstatLines == {i \in 1..Len(gitlog.log) : gitlog.log[i].kind = "file"}

\* the header line a numstat line belongs to, and the rank of a header line
\* among the header lines
headerOf(i) == CHOOSE h \in headerLines : h < i /\ \A g \in headerLines : g < i => g <= h
rankOf(h) == Cardinality({g \in headerLines : g <= h})

\* the number a numstat field stands for
writtenCount(field) == IF field = <<"-">> THEN 0 ELSE parseInt(field)

\* the numstat line i of the log is parsed into the file entry it describes
fileEntryParsed(i) ==
  LET commit == rankOf(headerOf(i))
      position == i - headerOf(i)
  IN  /\ commit <= Len(gitlog.result)
      /\ position <= Len(gitlog.result[commit].files)
      /\ gitlog.result[commit].files[position] =
           [filename |-> gitlog.log[i].filename,
            insertions |-> <<writtenCount(gitlog.log[i].insertions)>>,
            deletions |-> <<writtenCount(gitlog.log[i].deletions)>>]

noCountIsNaN ==
  \A c \in 1..Len(gitlog.result) :
    /\ gitlog.result[c].insertions # <<>>
    /\ gitlog.result[c].deletions # <<>>
    /\ \A k \in 1..Len(gitlog.result[c].files) :
         /\ gitlog.result[c].files[k].insertions # <<>>
         /\ gitlog.result[c].files[k].deletions # <<>>

plainFileNames ==
  \A i \in numstatLines : ~includes(gitlog.log[i].filename, <<"|">>)

\* C23 (as stated): for every numstat line of three tab-separated fields, a
\* field "-" in the insertions or deletions position yields the number 0 for
\* that field while the other count and the filename are kept as written; no
\* parsed count is ever NaN.
C23_DashIsZero ==
  parsed => (noCountIsNaN /\ \A i \in numstatLines : fileEntryParsed(i))

\* the same for logs none of whose file names contains "|"
C23_DashIsZeroPlainNames ==
  (parsed /\ plainFileNames) => (noCountIsNaN /\ \A i \in numstatLines : fileEntryParsed(i))

\* the header line h yields the record of its rank, with the files of the
\* numstat lines that follow it
headerParsed(h) ==
  LET own == {i \in numstatLines : headerOf(i) = h}
      record == gitlog.result[rankOf(h)]
  IN  /\ record.hash = <<hashOfLine(h)>>
      /\ Len(record.files) = Cardinality(own)
      /\ own = {} => (record.files = <<>> /\ record.insertions = <<0>>
                      /\ record.deletions = <<0>>)

\* C24 (as stated): a commit header line followed by zero numstat lines
\* yields a commit record (not dropped, not merged with a neighbour) with an
\* empty file list and insertions = deletions = 0, whether the commit is the
\* first, a middle or the last one of the log; the number of records equals
\* the number of header lines and the records keep the log's order.
C24_EmptyCommitKept ==
  parsed => /\ Len(gitlog.result) = Cardinality(headerLines)
            /\ \A h \in headerLines : headerParsed(h)

\* the same for logs none of whose file names contains "|"
C24_EmptyCommitKeptPlainNames ==
  (parsed /\ plainFileNames) =>
    /\ Len(gitlog.result) = Cardinality(headerLines)
    /\ \A h \in headerLines : headerParsed(h)

\* ------------------------------------------------------------ claim C27
\* the url is of the owner/repo shape: under https://github.com/ come two
\* non-empty segments, and after them at most a slash and a .git ending
ownerRepoShape(url) ==
  LET segments == split(SubSeq(url, Len(<<"h","t","t","p","s",":","/","/","g","i","t","h","u","b",".","c","o","m","/">>) + 1, Len(url)), "/")
  IN  /\ Len(segments) \in {2, 3}
      /\ segments[1] # <<>>
      /\ segments[2] # <<>>
      /\ Len(segments) = 3 => segments[3] \in {<<>>, <<".","g","i","t">>}

\* the url is missing, not under https://github.com/, or not of the
\* owner/repo shape
failsValidation(url) ==
  \/ url = <<>>
  \/ ~startsWith(url, <<"h","t","t","p","s",":","/","/","g","i","t","h","u","b",".","c","o","m","/">>)
  \/ ~ownerRepoShape(url)

\* request q is handled in this step, with a url that fails validation
handledInvalid(q) ==
  /\ handlers[q].pc = "idle"
  /\ handlers'[q].pc # "idle"
  /\ failsValidation(handlers'[q].url)

\* C27: an analyze request whose URL fails validation (missing, not under
\* https://github.com/, or not of the owner/repo shape) is rejected before
\* any work starts: it creates no repository record, changes no status,
\* starts no ingestion run and leaves the store unchanged.
C27_InvalidRejected ==
  [][\A q \in Requests :
       handledInvalid(q) =>
         /\ handlers'[q].pc = "refused"
         /\ handlers'[q].response[1].status = 400
         /\ UNCHANGED <<repositories, commits, runs, disk>>]_vars

\* a request was refused for each kind of failure while the store held the
\* record of an earlier request
C27_Witness ==
  /\ repositories # <<>>
  /\ \E q \in Requests :
       /\ handlers[q].pc = "refused"
       /\ handlers[q].url # <<>>
       /\ startsWith(handlers[q].url, <<"h","t","t","p","s",":","/","/","g","i","t","h","u","b",".","c","o","m","/">>)
       /\ ~ownerRepoShape(handlers[q].url)

\* ------------------------------------------------------------ C25, C26
\* the rendered commits that carry the selected marker: those whose id is
\* the id of selectedEvent
selectedElements(u) ==
  {i \in 1..Len(u.commits) :
     u.selectedEvent # <<>> /\ u.selectedEvent[1].id = u.commits[i].id}

\* this step is a click on a commit
isClick == ui.view \in {"vertical", "multi-lane"} /\ ui'.clicks = ui.clicks + 1

\* what a click does according to the claim: a click on the selected commit
\* leaves no commit selected, a click on another commit leaves exactly that
\* commit selected
clickToggles ==
  LET id == ui'.clicked[1]
  IN  IF ui.selectedEvent # <<>> /\ ui.selectedEvent[1].id = id
      THEN selectedElements(ui') = {}
      ELSE /\ Cardinality(selectedElements(ui')) = 1
           /\ \A i \in selectedElements(ui') : ui'.commits[i].id = id

\* C25: after any sequence of clicks on timeline commits at most one commit
\* is selected; a click on the selected commit clears the selection and a
\* click on any other commit makes that commit the only selected one
C25_ClickToggles ==
  [][/\ ui'.view \in {"vertical", "multi-lane"} => Cardinality(selectedElements(ui')) <= 1
     /\ isClick => clickToggles]_vars

\* C25, in the vertical timeline alone: the claim as stated
C25_VerticalClickToggles ==
  [][/\ ui'.view \in {"vertical", "multi-lane"} => Cardinality(selectedElements(ui')) <= 1
     /\ (isClick /\ ui.view = "vertical") => clickToggles]_vars

\* C26: once the commits have loaded and the effects of the render have run,
\* and the user has not clicked anything, a commit is selected
C26_AutoSelected ==
  (/\ ui.view \in {"vertical", "multi-lane"}
   /\ ui.loaded /\ Len(ui.commits) > 0
   /\ ~ui.effects
   /\ ui.clicks = 0)
  => selectedElements(ui) # {}

\* C26, in the multi-lane timeline alone: the claim as stated
C26_MultiLaneAutoSelected ==
  (/\ ui.view = "multi-lane"
   /\ ui.loaded /\ Len(ui.commits) > 0
   /\ ~ui.effects
   /\ ui.clicks = 0)
  => /\ selectedElements(ui) # {}
     /\ ui.selectedEvent[1] = mostRecent(ui.commits)

\* ----------------------------------------------------------------- C28
RECURSIVE total(_)
total(numbers) ==
  IF numbers = <<>> THEN 0 ELSE numbers[1] + total(Tail(numbers))

\* the tags carried by the served commits, and the commits carrying a tag
servedTags ==
  UNION {{agg.result.commits[i].tags[j] : j \in 1..Len(agg.result.commits[i].tags)}
         : i \in 1..Len(agg.result.commits)}

commitsWithTag(tag) ==
  {i \in 1..Len(agg.result.commits) :
     \E j \in 1..Len(agg.result.commits[i].tags) : agg.result.commits[i].tags[j] = tag}

\* C28: in a served body the category counts and the contributors' commit
\* counts each sum to totalCommits, activeContributors is the number of
\* contributor profiles, and mostActive holds, for every tag, the number of
\* commits that carry the tag
C28_CountsAgree ==
  (agg.phase = "done" /\ agg.result.status = 200) =>
    LET insights == agg.result.insights
        categories == insights.categories
        contributors == insights.contributors
        mostActive == insights.hotSpots.mostActive
    IN  /\ insights.timeline.totalCommits = Len(agg.result.commits)
        /\ total([i \in 1..Len(categories) |-> categories[i].count])
             = insights.timeline.totalCommits
        /\ total([i \in 1..Len(contributors) |-> contributors[i].commits])
             = insights.timeline.totalCommits
        /\ insights.timeline.activeContributors = Len(contributors)
        /\ {mostActive[i].key : i \in 1..Len(mostActive)} = servedTags
        /\ \A i, j \in 1..Len(mostActive) : mostActive[i].key = mostActive[j].key => i = j
        /\ \A i \in 1..Len(mostActive) :
             mostActive[i].count = Cardinality(commitsWithTag(mostActive[i].key))

\* a served body over several commits with a repeated type, a repeated
\* contributor, a repeated tag and a commit of several tags
C28_Witness ==
  /\ agg.phase = "done" /\ agg.result.status = 200
  /\ Len(agg.result.commits) >= 4
  /\ \E i \in 1..Len(agg.result.insights.categories) :
       agg.result.insights.categories[i].count >= 2
  /\ Len(agg.result.insights.contributors) >= 2
  /\ \E i \in 1..Len(agg.result.insights.contributors) :
       agg.result.insights.contributors[i].commits >= 2
  /\ \E i \in 1..Len(agg.result.commits) : Len(agg.result.commits[i].tags) >= 2
  /\ \E tag \in servedTags : Cardinality(commitsWithTag(tag)) >= 2

\* ----------------------------------------------------------------- C29
\* the pages requested so far are 1, 2, 3, ..; each page but the last
\* requested one has been received, with hasMore = true
pagesInOrder ==
  /\ \A i \in 1..Len(ui.requested) : ui.requested[i] = i
  /\ Len(ui.requested) <= Len(ui.pages) + 1
  /\ \A i \in 1..Len(ui.requested) - 1 :
       /\ ui.pages[i].pagination.page = i
       /\ ui.pages[i].pagination.hasMore

\* this step issues a page request
isPageRequest == ui.view = "timeline" /\ Len(ui'.requested) > Len(ui.requested)

\* a page request is issued while no other is in flight
oneInFlight == [][isPageRequest => ui.fetching = <<>> /\ ui.handler = "none"]_vars

\* a page with hasMore = false has been received
lastPageReached ==
  ui.pages # <<>> /\ ~ui.pages[Len(ui.pages)].pagination.hasMore

runsOf(id) == {q \in Requests : runs[q].repoId = id}

allRunsEnded(id) == runsOf(id) # {} /\ \A q \in runsOf(id) : runs[q].pc = "done"

\* C30: a run that has written processing later writes completed or error,
\* and a repository whose runs have all ended is neither pending nor
\* processing
C30_RunsEnd ==
  /\ \A q \in Requests :
       (runs[q].wrote = "processing") ~> (runs[q].wrote \in {"completed", "error"})
  /\ [](\A i \in 1..Len(repositories) :
          allRunsEnded(repositories[i].id)
            => repositories[i].status \in {"completed", "error"})

\* two runs for one repository have both ended, one of them in its catch
\* block
C30_Witness ==
  \E i \in 1..Len(repositories) :
    /\ Cardinality(runsOf(repositories[i].id)) = 2
    /\ allRunsEnded(repositories[i].id)
    /\ repositories[i].status = "error"
====
